---- MODULE Spec2Model ----
(***************************************************************************)
(* Voice-command parser of the billing service                             *)
(* (src/src/services/productService.ts, class ProductService).             *)
(*                                                                         *)
(* A JavaScript string is modelled as the sequence of its UTF-16 code      *)
(* units (all the text of the keyword tables lies in the Basic             *)
(* Multilingual Plane, so one unit is one character).  The empty sequence  *)
(* stands for the empty string and for an absent (undefined) string, both  *)
(* of which are falsy in the source.                                       *)
(***************************************************************************)
EXTENDS Integers, Sequences, FiniteSets, TLC

VARIABLES
    products,       \* ProductService.products, the catalog the resolver scans
    i18n_language,  \* i18n.language, the ambient UI language
    transcript,     \* the transcript handed to parseVoiceCommand
    language,       \* the language argument handed to parseVoiceCommand
    pc,             \* "ready" before the call, "done" after it
    result,         \* the value parseVoiceCommand returned
    searchName,     \* the name handed to findProductByName
    foundProduct,   \* the product findProductByName returned: its index in
                    \* the catalog, 0 for null
    bills,          \* ProductService.bills
    calls,          \* the parseVoiceCommand calls made so far: inputs, the
                    \* catalog at the call, and the result
    fetched,        \* what the last fetchAllProducts resolved to
    cart,           \* BillingDashboard's cart state
    added,          \* the last addToCart call: product, quantity, and the
                    \* quantity the cart held before it
    currentUser,    \* AuthService.currentUser, 0 for null
    session,        \* localStorage[SESSION_KEY], 0 when absent
    isAuthenticated,\* App's isAuthenticated state: the dashboard is shown
    loggedOut,      \* the logout control was used since the last login
    recognition,    \* SpeechRecognitionService.recognition: "none" for null
    isListening,    \* SpeechRecognitionService.isListening
    onResult,       \* the caller whose onResult is registered, 0 for null
    onError,        \* the caller whose onError is registered, 0 for null
    onEnd,          \* the caller whose onEnd is registered, 0 for null
    recognition_lang, \* recognition.lang
    recognizer,     \* the browser's recognizer: idle, running or stopping
    started,        \* the last startListening call: what it returned, the
                    \* service's fields before and after it
    delivered       \* the last recognizer event and the caller it went to

serviceVars == <<bills, calls, fetched>>

dashboardVars == <<cart, added, currentUser, session, isAuthenticated,
                   loggedOut>>

speechVars == <<recognition, isListening, onResult, onError, onEnd,
                recognition_lang, recognizer, started, delivered>>

uiVars == <<dashboardVars, speechVars>>

coreVars == <<products, i18n_language, transcript, language, pc, result,
              searchName, foundProduct, serviceVars>>

vars == <<products, i18n_language, transcript, language, pc, result,
          searchName, foundProduct, serviceVars, uiVars>>

----------------------------------------------------------------------------
(* String primitives of the JavaScript runtime, on code-unit sequences.    *)

MinOf(S) == CHOOSE x \in S : \A y \in S : x <= y
MaxOf(S) == CHOOSE x \in S : \A y \in S : y <= x

\* String.prototype.toLowerCase / toUpperCase on a single unit: the model's
\* alphabet has cased letters only in ASCII.
lowerUnit(c) == IF c \in 65..90 THEN c + 32 ELSE c
upperUnit(c) == IF c \in 97..122 THEN c - 32 ELSE c

toLowerCase(s) == [i \in 1..Len(s) |-> lowerUnit(s[i])]
toUpperCase(s) == [i \in 1..Len(s) |-> upperUnit(s[i])]

\* The units the regular-expression class \s and String.prototype.trim treat
\* as white space (tab, LF, VT, FF, CR, space, no-break space).
WhiteSpace == {9, 10, 11, 12, 13, 32, 160}

\* The regular-expression class \d.
Digits == 48..57

\* The units of the model's alphabet in the Unicode categories P and S
\* (ASCII punctuation and symbols, the danda, the rupee sign).
PunctOrSymbol ==
    (33..47) \cup (58..64) \cup (91..96) \cup (123..126) \cup {2404, 2405, 8377}

trim(s) ==
    LET keep == {i \in 1..Len(s) : s[i] \notin WhiteSpace}
    IN  IF keep = {} THEN <<>> ELSE SubSeq(s, MinOf(keep), MaxOf(keep))

\* String.prototype.includes
includes(text, kw) ==
    \E i \in 0..(Len(text) - Len(kw)) : \A j \in 1..Len(kw) : text[i + j] = kw[j]

\* s.split('-')[0]
splitDash0(s) ==
    LET dashes == {i \in 1..Len(s) : s[i] = 45}
    IN  IF dashes = {} THEN s ELSE SubSeq(s, 1, MinOf(dashes) - 1)

\* a || b on strings
OrElse(a, b) == IF a # <<>> THEN a ELSE b

\* s.replace(new RegExp(kw, 'gi'), ''): every match of the literal kw, found
\* left to right without overlap and compared case-insensitively, is deleted.
\* An empty pattern matches the empty string everywhere and deletes nothing.
matchesAt(s, kw, i) ==
    /\ i + Len(kw) - 1 <= Len(s)
    /\ \A j \in 1..Len(kw) : lowerUnit(s[i + j - 1]) = lowerUnit(kw[j])

\* The units of s at the indices satisfying Keep, in order.
keepIndices(s, Keep(_)) ==
    LET idx == SelectSeq([i \in 1..Len(s) |-> i], Keep)
    IN  [j \in 1..Len(idx) |-> s[idx[j]]]

\* The starts of the matches a global scan takes: the leftmost match at or
\* after index from, then the leftmost one after its end, and so on.
RECURSIVE takenMatches(_, _, _)
takenMatches(starts, len, from) ==
    LET rest == {p \in starts : p >= from}
    IN  IF rest = {} THEN {}
        ELSE {MinOf(rest)} \cup takenMatches(starts, len, MinOf(rest) + len)

replaceAll(s, kw) ==
    IF kw = <<>> THEN s
    ELSE LET starts == {i \in 1..(Len(s) - Len(kw) + 1) : matchesAt(s, kw, i)}
             taken == takenMatches(starts, Len(kw), 1)
         IN  IF starts = {} THEN s
             ELSE keepIndices(s, LAMBDA i :
                      \A p \in taken : i < p \/ i >= p + Len(kw))

\* keywords.forEach(k => { s = s.replace(new RegExp(k, 'gi'), '') }), from the
\* k-th keyword on; nothing is left to delete once s is empty.
RECURSIVE replaceFrom(_, _, _)
replaceFrom(s, kws, k) ==
    IF k > Len(kws) THEN s
    ELSE LET r == replaceAll(s, kws[k])
         IN  IF r = <<>> THEN r ELSE replaceFrom(r, kws, k + 1)

replaceEach(s, kws) == replaceFrom(s, kws, 1)

\* s.replace(/\d+/g, '')
removeDigits(s) == SelectSeq(s, LAMBDA c : c \notin Digits)

\* Value of a run of decimal digits (parseInt / the integer part of parseFloat).
RECURSIVE digitsValue(_)
digitsValue(d) ==
    IF d = <<>> THEN 0
    ELSE digitsValue(SubSeq(d, 1, Len(d) - 1)) * 10 + (d[Len(d)] - 48)

\* s.match(/(\d+)/): the first maximal run of digits, <<>> when there is none.
firstDigitRun(s) ==
    LET ds == {i \in 1..Len(s) : s[i] \in Digits}
    IN  IF ds = {} THEN <<>>
        ELSE LET a == MinOf(ds)
                 stops == {i \in a..Len(s) : s[i] \notin Digits}
                 b == IF stops = {} THEN Len(s) ELSE MinOf(stops) - 1
             IN  SubSeq(s, a, b)

----------------------------------------------------------------------------
(* Language codes.                                                         *)

en == <<101, 110>>
hi == <<104, 105>>
kn == <<107, 110>>
ml == <<109, 108>>
ta == <<116, 97>>

----------------------------------------------------------------------------
(* getCommandKeywords: the per-language keyword tables.                    *)

keywords_en ==
  [
    clear |-> <<
        <<99, 108, 101, 97, 114, 32, 99, 97, 114, 116>>,   \* clear cart
        <<101, 109, 112, 116, 121, 32, 99, 97, 114, 116>>,   \* empty cart
        <<115, 116, 97, 114, 116, 32, 111, 118, 101, 114>>,   \* start over
        <<99, 108, 101, 97, 114>>   \* clear
    >>,
    checkout |-> <<
        <<99, 104, 101, 99, 107, 111, 117, 116>>,   \* checkout
        <<99, 104, 101, 99, 107, 32, 111, 117, 116>>,   \* check out
        <<112, 114, 111, 99, 101, 101, 100, 32, 116, 111, 32, 112, 97, 121, 109, 101, 110, 116>>,   \* proceed to payment
        <<103, 111, 32, 116, 111, 32, 112, 97, 121, 109, 101, 110, 116>>,   \* go to payment
        <<111, 112, 101, 110, 32, 112, 97, 121, 109, 101, 110, 116>>,   \* open payment
        <<98, 105, 108, 108>>   \* bill
    >>,
    payNow |-> <<
        <<112, 97, 121, 32, 110, 111, 119>>,   \* pay now
        <<99, 111, 110, 102, 105, 114, 109, 32, 112, 97, 121, 109, 101, 110, 116>>,   \* confirm payment
        <<99, 111, 109, 112, 108, 101, 116, 101, 32, 112, 97, 121, 109, 101, 110, 116>>,   \* complete payment
        <<112, 97, 121>>,   \* pay
        <<99, 111, 110, 102, 105, 114, 109>>   \* confirm
    >>,
    cash |-> <<
        <<112, 97, 121, 32, 119, 105, 116, 104, 32, 99, 97, 115, 104>>,   \* pay with cash
        <<99, 97, 115, 104, 32, 112, 97, 121, 109, 101, 110, 116>>,   \* cash payment
        <<99, 97, 115, 104>>,   \* cash
        <<99, 97, 115, 104, 32, 109, 111, 100, 101>>   \* cash mode
    >>,
    card |-> <<
        <<112, 97, 121, 32, 119, 105, 116, 104, 32, 99, 97, 114, 100>>,   \* pay with card
        <<99, 97, 114, 100, 32, 112, 97, 121, 109, 101, 110, 116>>,   \* card payment
        <<99, 114, 101, 100, 105, 116, 32, 99, 97, 114, 100>>,   \* credit card
        <<100, 101, 98, 105, 116, 32, 99, 97, 114, 100>>,   \* debit card
        <<99, 97, 114, 100>>   \* card
    >>,
    digital |-> <<
        <<100, 105, 103, 105, 116, 97, 108, 32, 112, 97, 121, 109, 101, 110, 116>>,   \* digital payment
        <<117, 112, 105>>,   \* upi
        <<119, 97, 108, 108, 101, 116>>,   \* wallet
        <<100, 105, 103, 105, 116, 97, 108>>,   \* digital
        <<112, 104, 111, 110, 101, 112, 101>>,   \* phonepe
        <<103, 112, 97, 121>>   \* gpay
    >>,
    received |-> <<
        <<97, 109, 111, 117, 110, 116, 32, 114, 101, 99, 101, 105, 118, 101, 100>>,   \* amount received
        <<99, 97, 115, 104, 32, 114, 101, 99, 101, 105, 118, 101, 100>>,   \* cash received
        <<114, 101, 99, 101, 105, 118, 101, 100>>,   \* received
        <<99, 97, 115, 104>>,   \* cash
        <<97, 109, 111, 117, 110, 116>>   \* amount
    >>,
    remove |-> <<
        <<114, 101, 109, 111, 118, 101>>,   \* remove
        <<100, 101, 108, 101, 116, 101>>,   \* delete
        <<116, 97, 107, 101, 32, 111, 117, 116>>   \* take out
    >>,
    removeLast |-> <<
        <<114, 101, 109, 111, 118, 101, 32, 108, 97, 115, 116>>,   \* remove last
        <<100, 101, 108, 101, 116, 101, 32, 108, 97, 115, 116>>,   \* delete last
        <<117, 110, 100, 111, 32, 108, 97, 115, 116>>,   \* undo last
        <<117, 110, 100, 111>>   \* undo
    >>,
    add |-> <<
        <<97, 100, 100>>,   \* add
        <<103, 101, 116>>,   \* get
        <<98, 117, 121>>,   \* buy
        <<116, 97, 107, 101>>   \* take
    >>,
    numbers |-> <<
        << <<111, 110, 101>>, 1 >>,   \* one
        << <<116, 119, 111>>, 2 >>,   \* two
        << <<116, 104, 114, 101, 101>>, 3 >>,   \* three
        << <<102, 111, 117, 114>>, 4 >>,   \* four
        << <<102, 105, 118, 101>>, 5 >>,   \* five
        << <<115, 105, 120>>, 6 >>,   \* six
        << <<115, 101, 118, 101, 110>>, 7 >>,   \* seven
        << <<101, 105, 103, 104, 116>>, 8 >>,   \* eight
        << <<110, 105, 110, 101>>, 9 >>,   \* nine
        << <<116, 101, 110>>, 10 >>   \* ten
    >>
  ]

keywords_hi ==
  [
    clear |-> <<
        <<2325, 2366, 2352, 2381, 2335, 32, 2360, 2366, 2347, 32, 2325, 2352, 2379>>,   \* कार्ट साफ करो
        <<2326, 2366, 2354, 2368, 32, 2325, 2352, 2379>>,   \* खाली करो
        <<2360, 2366, 2347, 32, 2325, 2352, 2379>>,   \* साफ करो
        <<2361, 2335, 2366, 2323>>   \* हटाओ
    >>,
    checkout |-> <<
        <<2330, 2375, 2325, 2310, 2313, 2335>>,   \* चेकआउट
        <<2348, 2367, 2354>>,   \* बिल
        <<2349, 2369, 2327, 2340, 2366, 2344>>,   \* भुगतान
        <<2346, 2375, 2350, 2375, 2306, 2335>>,   \* पेमेंट
        <<2348, 2367, 2354, 32, 2348, 2344, 2366, 2323>>   \* बिल बनाओ
    >>,
    payNow |-> <<
        <<2309, 2349, 2368, 32, 2349, 2369, 2327, 2340, 2366, 2344, 32, 2325, 2352, 2379>>,   \* अभी भुगतान करो
        <<2349, 2369, 2327, 2340, 2366, 2344, 32, 2325, 2352, 2379>>,   \* भुगतान करो
        <<2346, 2375, 32, 2325, 2352, 2379>>,   \* पे करो
        <<2325, 2344, 2381, 2347, 2352, 2381, 2350, 32, 2325, 2352, 2379>>   \* कन्फर्म करो
    >>,
    cash |-> <<
        <<2344, 2325, 2342>>,   \* नकद
        <<2325, 2376, 2358>>,   \* कैश
        <<2344, 2325, 2342, 32, 2349, 2369, 2327, 2340, 2366, 2344>>,   \* नकद भुगतान
        <<2325, 2376, 2358, 32, 2346, 2375, 2350, 2375, 2306, 2335>>   \* कैश पेमेंट
    >>,
    card |-> <<
        <<2325, 2366, 2352, 2381, 2337>>,   \* कार्ड
        <<2325, 2366, 2352, 2381, 2337, 32, 2346, 2375, 2350, 2375, 2306, 2335>>,   \* कार्ड पेमेंट
        <<2325, 2381, 2352, 2375, 2337, 2367, 2335, 32, 2325, 2366, 2352, 2381, 2337>>   \* क्रेडिट कार्ड
    >>,
    digital |-> <<
        <<2337, 2367, 2332, 2367, 2335, 2354>>,   \* डिजिटल
        <<2351, 2370, 2346, 2368, 2310, 2312>>,   \* यूपीआई
        <<2357, 2377, 2354, 2375, 2335>>,   \* वॉलेट
        <<2347, 2379, 2344, 2346, 2375>>,   \* फोनपे
        <<2332, 2368, 2346, 2375>>   \* जीपे
    >>,
    received |-> <<
        <<2350, 2367, 2354, 2366>>,   \* मिला
        <<2346, 2381, 2352, 2366, 2346, 2381, 2340>>,   \* प्राप्त
        <<2352, 2369, 2346, 2319, 32, 2350, 2367, 2354, 2375>>,   \* रुपए मिले
        <<2325, 2376, 2358, 32, 2350, 2367, 2354, 2366>>,   \* कैश मिला
        <<2352, 2366, 2358, 2367>>   \* राशि
    >>,
    remove |-> <<
        <<2361, 2335, 2366, 2323>>,   \* हटाओ
        <<2344, 2367, 2325, 2366, 2354, 2379>>,   \* निकालो
        <<2337, 2367, 2354, 2368, 2335, 32, 2325, 2352, 2379>>   \* डिलीट करो
    >>,
    removeLast |-> <<
        <<2310, 2326, 2367, 2352, 2368, 32, 2361, 2335, 2366, 2323>>,   \* आखिरी हटाओ
        <<2346, 2367, 2331, 2354, 2366, 32, 2361, 2335, 2366, 2323>>,   \* पिछला हटाओ
        <<2309, 2344, 2337, 2370>>   \* अनडू
    >>,
    add |-> <<
        <<2332, 2379, 2337, 2364, 2379>>,   \* जोड़ो
        <<2354, 2379>>,   \* लो
        <<2326, 2352, 2368, 2342, 2379>>,   \* खरीदो
        <<2342, 2379>>   \* दो
    >>,
    numbers |-> <<
        << <<2319, 2325>>, 1 >>,   \* एक
        << <<2342, 2379>>, 2 >>,   \* दो
        << <<2340, 2368, 2344>>, 3 >>,   \* तीन
        << <<2330, 2366, 2352>>, 4 >>,   \* चार
        << <<2346, 2366, 2306, 2330>>, 5 >>,   \* पांच
        << <<2331, 2361>>, 6 >>,   \* छह
        << <<2360, 2366, 2340>>, 7 >>,   \* सात
        << <<2310, 2336>>, 8 >>,   \* आठ
        << <<2344, 2380>>, 9 >>,   \* नौ
        << <<2342, 2360>>, 10 >>   \* दस
    >>
  ]

keywords_kn ==
  [
    clear |-> <<
        <<3221, 3262, 3248, 3277, 3231, 3277, 32, 3256, 3277, 3242, 3255, 3277, 3231>>,   \* ಕಾರ್ಟ್ ಸ್ಪಷ್ಟ
        <<3222, 3262, 3250, 3263, 32, 3246, 3262, 3233, 3263>>,   \* ಖಾಲಿ ಮಾಡಿ
        <<3256, 3277, 3242, 3255, 3277, 3231>>,   \* ಸ್ಪಷ್ಟ
        <<3236, 3270, 3223, 3270, 3238, 3265, 3257, 3262, 3221, 3263>>   \* ತೆಗೆದುಹಾಕಿ
    >>,
    checkout |-> <<
        <<3226, 3270, 3221, 3277, 3220, 3231, 3277>>,   \* ಚೆಕ್ಔಟ್
        <<3244, 3263, 3250, 3277>>,   \* ಬಿಲ್
        <<3242, 3262, 3253, 3236, 3263>>,   \* ಪಾವತಿ
        <<3242, 3271, 3246, 3270, 3202, 3231, 3277>>,   \* ಪೇಮೆಂಟ್
        <<3244, 3263, 3250, 3277, 32, 3246, 3262, 3233, 3263>>   \* ಬಿಲ್ ಮಾಡಿ
    >>,
    payNow |-> <<
        <<3208, 3223, 32, 3242, 3262, 3253, 3236, 3263, 3256, 3263>>,   \* ಈಗ ಪಾವತಿಸಿ
        <<3242, 3262, 3253, 3236, 3263, 3256, 3263>>,   \* ಪಾವತಿಸಿ
        <<3242, 3271, 32, 3246, 3262, 3233, 3263>>,   \* ಪೇ ಮಾಡಿ
        <<3240, 3263, 3248, 3277, 3239, 3248, 3263, 3256, 3263>>   \* ನಿರ್ಧರಿಸಿ
    >>,
    cash |-> <<
        <<3240, 3223, 3238, 3265>>,   \* ನಗದು
        <<3221, 3277, 3247, 3262, 3254, 3277>>,   \* ಕ್ಯಾಶ್
        <<3240, 3223, 3238, 3265, 32, 3242, 3262, 3253, 3236, 3263>>,   \* ನಗದು ಪಾವತಿ
        <<3221, 3277, 3247, 3262, 3254, 3277, 32, 3242, 3271, 3246, 3270, 3202, 3231, 3277>>   \* ಕ್ಯಾಶ್ ಪೇಮೆಂಟ್
    >>,
    card |-> <<
        <<3221, 3262, 3248, 3277, 3233, 3277>>,   \* ಕಾರ್ಡ್
        <<3221, 3262, 3248, 3277, 3233, 3277, 32, 3242, 3262, 3253, 3236, 3263>>,   \* ಕಾರ್ಡ್ ಪಾವತಿ
        <<3221, 3277, 3248, 3270, 3233, 3263, 3231, 3277, 32, 3221, 3262, 3248, 3277, 3233, 3277>>   \* ಕ್ರೆಡಿಟ್ ಕಾರ್ಡ್
    >>,
    digital |-> <<
        <<3233, 3263, 3228, 3263, 3231, 3250, 3277>>,   \* ಡಿಜಿಟಲ್
        <<3247, 3265, 3242, 3263, 3216>>,   \* ಯುಪಿಐ
        <<3253, 3262, 3250, 3270, 3231, 3277>>,   \* ವಾಲೆಟ್
        <<3243, 3275, 3240, 3277, 3242, 3270>>,   \* ಫೋನ್ಪೆ
        <<3228, 3263, 3242, 3270>>   \* ಜಿಪೆ
    >>,
    received |-> <<
        <<3256, 3263, 3221, 3277, 3221, 3263, 3236, 3265>>,   \* ಸಿಕ್ಕಿತು
        <<3242, 3277, 3248, 3262, 3242, 3277, 3236>>,   \* ಪ್ರಾಪ್ತ
        <<3248, 3266, 3242, 3262, 3247, 3263, 32, 3256, 3263, 3221, 3277, 3221, 3263, 3236, 3265>>,   \* ರೂಪಾಯಿ ಸಿಕ್ಕಿತು
        <<3221, 3277, 3247, 3262, 3254, 3277, 32, 3256, 3263, 3221, 3277, 3221, 3263, 3236, 3265>>,   \* ಕ್ಯಾಶ್ ಸಿಕ್ಕಿತು
        <<3246, 3274, 3236, 3277, 3236>>   \* ಮೊತ್ತ
    >>,
    remove |-> <<
        <<3236, 3270, 3223, 3270, 3238, 3265, 3257, 3262, 3221, 3263>>,   \* ತೆಗೆದುಹಾಕಿ
        <<3257, 3274, 3248, 3236, 3270, 3223, 3270, 3247, 3263, 3248, 3263>>,   \* ಹೊರತೆಗೆಯಿರಿ
        <<3233, 3263, 3250, 3264, 3231, 3277, 32, 3246, 3262, 3233, 3263>>   \* ಡಿಲೀಟ್ ಮಾಡಿ
    >>,
    removeLast |-> <<
        <<3221, 3274, 3240, 3270, 3247, 3238, 3240, 3277, 3240, 3265, 32, 3236, 3270, 3223, 3270, 3238, 3265, 3257, 3262, 3221, 3263>>,   \* ಕೊನೆಯದನ್ನು ತೆಗೆದುಹಾಕಿ
        <<3257, 3263, 3202, 3238, 3263, 3240, 3238, 3240, 3277, 3240, 3265, 32, 3236, 3270, 3223, 3270, 3238, 3265, 3257, 3262, 3221, 3263>>,   \* ಹಿಂದಿನದನ್ನು ತೆಗೆದುಹಾಕಿ
        <<3205, 3240, 3277, 3233, 3266>>   \* ಅನ್ಡೂ
    >>,
    add |-> <<
        <<3256, 3271, 3248, 3263, 3256, 3263>>,   \* ಸೇರಿಸಿ
        <<3236, 3270, 3223, 3270, 3238, 3265, 3221, 3274, 3251, 3277, 3251, 3263>>,   \* ತೆಗೆದುಕೊಳ್ಳಿ
        <<3222, 3248, 3264, 3238, 3263, 3256, 3263>>,   \* ಖರೀದಿಸಿ
        <<3221, 3274, 3233, 3263>>   \* ಕೊಡಿ
    >>,
    numbers |-> <<
        << <<3218, 3202, 3238, 3265>>, 1 >>,   \* ಒಂದು
        << <<3214, 3248, 3233, 3265>>, 2 >>,   \* ಎರಡು
        << <<3246, 3266, 3248, 3265>>, 3 >>,   \* ಮೂರು
        << <<3240, 3262, 3250, 3277, 3221, 3265>>, 4 >>,   \* ನಾಲ್ಕು
        << <<3216, 3238, 3265>>, 5 >>,   \* ಐದು
        << <<3206, 3248, 3265>>, 6 >>,   \* ಆರು
        << <<3215, 3251, 3265>>, 7 >>,   \* ಏಳು
        << <<3214, 3202, 3231, 3265>>, 8 >>,   \* ಎಂಟು
        << <<3218, 3202, 3244, 3236, 3277, 3236, 3265>>, 9 >>,   \* ಒಂಬತ್ತು
        << <<3257, 3236, 3277, 3236, 3265>>, 10 >>   \* ಹತ್ತು
    >>
  ]

keywords_ml ==
  [
    clear |-> <<
        <<3349, 3390, 3452, 3359, 3405, 3359, 3405, 32, 3381, 3405, 3375, 3349, 3405, 3364, 3374, 3390, 3349, 3405, 3349, 3393, 3349>>,   \* കാർട്ട് വ്യക്തമാക്കുക
        <<3382, 3394, 3368, 3405, 3375, 3374, 3390, 3349, 3405, 3349, 3393, 3349>>,   \* ശൂന്യമാക്കുക
        <<3381, 3405, 3375, 3349, 3405, 3364, 3374, 3390, 3349, 3405, 3349, 3393, 3349>>,   \* വ്യക്തമാക്കുക
        <<3368, 3392, 3349, 3405, 3349, 3330, 3354, 3398, 3375, 3405, 3375, 3393, 3349>>   \* നീക്കംചെയ്യുക
    >>,
    checkout |-> <<
        <<3354, 3398, 3349, 3405, 3349, 3405, 8204, 3348, 3359, 3405, 3359, 3405>>,   \* ചെക്ക്‌ഔട്ട്
        <<3372, 3391, 3453>>,   \* ബിൽ
        <<3370, 3399, 3375, 3405, 8204, 3374, 3398, 3368, 3405, 3377, 3405>>,   \* പേയ്‌മെന്റ്
        <<3372, 3391, 3453, 32, 3354, 3398, 3375, 3405, 3375, 3393, 3349>>   \* ബിൽ ചെയ്യുക
    >>,
    payNow |-> <<
        <<3335, 3370, 3405, 3370, 3403, 3454, 32, 3370, 3363, 3374, 3359, 3375, 3405, 3349, 3405, 3349, 3393, 3349>>,   \* ഇപ്പോൾ പണമടയ്ക്കുക
        <<3370, 3363, 3374, 3359, 3375, 3405, 3349, 3405, 3349, 3393, 3349>>,   \* പണമടയ്ക്കുക
        <<3370, 3399, 32, 3354, 3398, 3375, 3405, 3375, 3393, 3349>>,   \* പേ ചെയ്യുക
        <<3384, 3405, 3365, 3391, 3376, 3392, 3349, 3376, 3391, 3349, 3405, 3349, 3393, 3349>>   \* സ്ഥിരീകരിക്കുക
    >>,
    cash |-> <<
        <<3370, 3363, 3330>>,   \* പണം
        <<3349, 3390, 3383, 3405>>,   \* കാഷ്
        <<3370, 3363, 3330, 32, 3370, 3399, 3375, 3405, 8204, 3374, 3398, 3368, 3405, 3377, 3405>>,   \* പണം പേയ്‌മെന്റ്
        <<3349, 3390, 3383, 3405, 32, 3370, 3399, 3375, 3405, 8204, 3374, 3398, 3368, 3405, 3377, 3405>>   \* കാഷ് പേയ്‌മെന്റ്
    >>,
    card |-> <<
        <<3349, 3390, 3452, 3361, 3405>>,   \* കാർഡ്
        <<3349, 3390, 3452, 3361, 3405, 32, 3370, 3399, 3375, 3405, 8204, 3374, 3398, 3368, 3405, 3377, 3405>>,   \* കാർഡ് പേയ്‌മെന്റ്
        <<3349, 3405, 3376, 3398, 3361, 3391, 3377, 3405, 3377, 3405, 32, 3349, 3390, 3452, 3361, 3405>>   \* ക്രെഡിറ്റ് കാർഡ്
    >>,
    digital |-> <<
        <<3361, 3391, 3356, 3391, 3377, 3405, 3377, 3453>>,   \* ഡിജിറ്റൽ
        <<3375, 3393, 3370, 3391, 3344>>,   \* യുപിഐ
        <<3381, 3390, 3378, 3377, 3405, 3377, 3405>>,   \* വാലറ്റ്
        <<3371, 3403, 3450, 3370, 3398>>,   \* ഫോൺപെ
        <<3356, 3391, 3370, 3398>>   \* ജിപെ
    >>,
    received |-> <<
        <<3378, 3373, 3391, 3354, 3405, 3354, 3393>>,   \* ലഭിച്ചു
        <<3370, 3405, 3376, 3390, 3370, 3405, 3364, 3330>>,   \* പ്രാപ്തം
        <<3376, 3394, 3370, 32, 3378, 3373, 3391, 3354, 3405, 3354, 3393>>,   \* രൂപ ലഭിച്ചു
        <<3349, 3390, 3383, 3405, 32, 3378, 3373, 3391, 3354, 3405, 3354, 3393>>,   \* കാഷ് ലഭിച്ചു
        <<3364, 3393, 3349>>   \* തുക
    >>,
    remove |-> <<
        <<3368, 3392, 3349, 3405, 3349, 3330, 3354, 3398, 3375, 3405, 3375, 3393, 3349>>,   \* നീക്കംചെയ്യുക
        <<3370, 3393, 3377, 3364, 3405, 3364, 3398, 3359, 3393, 3349, 3405, 3349, 3393, 3349>>,   \* പുറത്തെടുക്കുക
        <<3361, 3391, 3378, 3392, 3377, 3405, 3377, 3405, 32, 3354, 3398, 3375, 3405, 3375, 3393, 3349>>   \* ഡിലീറ്റ് ചെയ്യുക
    >>,
    removeLast |-> <<
        <<3333, 3381, 3384, 3390, 3368, 3364, 3405, 3364, 3399, 3364, 3405, 32, 3368, 3392, 3349, 3405, 3349, 3330, 3354, 3398, 3375, 3405, 3375, 3393, 3349>>,   \* അവസാനത്തേത് നീക്കംചെയ്യുക
        <<3374, 3393, 3374, 3405, 3370, 3364, 3405, 3364, 3399, 3364, 3405, 32, 3368, 3392, 3349, 3405, 3349, 3330, 3354, 3398, 3375, 3405, 3375, 3393, 3349>>,   \* മുമ്പത്തേത് നീക്കംചെയ്യുക
        <<3333, 3450, 3361, 3394>>   \* അൺഡൂ
    >>,
    add |-> <<
        <<3354, 3399, 3452, 3349, 3405, 3349, 3393, 3349>>,   \* ചേർക്കുക
        <<3342, 3359, 3393, 3349, 3405, 3349, 3393, 3349>>,   \* എടുക്കുക
        <<3381, 3390, 3353, 3405, 3353, 3393, 3349>>,   \* വാങ്ങുക
        <<3349, 3402, 3359, 3393, 3349, 3405, 3349, 3393, 3349>>   \* കൊടുക്കുക
    >>,
    numbers |-> <<
        << <<3346, 3368, 3405, 3368, 3405>>, 1 >>,   \* ഒന്ന്
        << <<3376, 3363, 3405, 3359, 3405>>, 2 >>,   \* രണ്ട്
        << <<3374, 3394, 3368, 3405, 3368, 3405>>, 3 >>,   \* മൂന്ന്
        << <<3368, 3390, 3378, 3405>>, 4 >>,   \* നാല്
        << <<3333, 3358, 3405, 3354, 3405>>, 5 >>,   \* അഞ്ച്
        << <<3334, 3377, 3405>>, 6 >>,   \* ആറ്
        << <<3343, 3380, 3405>>, 7 >>,   \* ഏഴ്
        << <<3342, 3359, 3405, 3359, 3405>>, 8 >>,   \* എട്ട്
        << <<3346, 3374, 3405, 3370, 3364, 3405>>, 9 >>,   \* ഒമ്പത്
        << <<3370, 3364, 3405, 3364, 3405>>, 10 >>   \* പത്ത്
    >>
  ]

keywords_ta ==
  [
    clear |-> <<
        <<2965, 3006, 2992, 3021, 2975, 3021, 2975, 3016, 32, 2949, 2996, 3007, 2965, 3021, 2965>>,   \* கார்ட்டை அழிக்க
        <<2997, 3014, 2993, 3009, 2990, 3016, 2991, 3006, 2965, 3021, 2965>>,   \* வெறுமையாக்க
        <<2949, 2996, 3007>>,   \* அழி
        <<2984, 3008, 2965, 3021, 2965>>   \* நீக்க
    >>,
    checkout |-> <<
        <<2970, 3014, 2965, 3021, 2949, 2997, 3009, 2975, 3021>>,   \* செக்அவுட்
        <<2986, 3007, 2994, 3021>>,   \* பில்
        <<2965, 2975, 3021, 2975, 2979, 2990, 3021>>,   \* கட்டணம்
        <<2986, 3007, 2994, 3021, 32, 2970, 3014, 2991, 3021>>   \* பில் செய்
    >>,
    payNow |-> <<
        <<2951, 2986, 3021, 2986, 3019, 2980, 3009, 32, 2986, 2979, 2990, 3021, 32, 2970, 3014, 2994, 3009, 2980, 3021, 2980>>,   \* இப்போது பணம் செலுத்த
        <<2986, 2979, 2990, 3021, 32, 2970, 3014, 2994, 3009, 2980, 3021, 2980>>,   \* பணம் செலுத்த
        <<2986, 3015, 32, 2970, 3014, 2991, 3021>>,   \* பே செய்
        <<2953, 2993, 3009, 2980, 3007, 2986, 3021, 2986, 2975, 3009, 2980, 3021, 2980>>   \* உறுதிப்படுத்த
    >>,
    cash |-> <<
        <<2986, 2979, 2990, 3021>>,   \* பணம்
        <<2965, 3015, 2999, 3021>>,   \* கேஷ்
        <<2986, 2979, 2990, 3021, 32, 2965, 2975, 3021, 2975, 2979, 2990, 3021>>,   \* பணம் கட்டணம்
        <<2965, 3015, 2999, 3021, 32, 2986, 3015, 2990, 3014, 2979, 3021, 2975, 3021>>   \* கேஷ் பேமெண்ட்
    >>,
    card |-> <<
        <<2965, 3006, 2992, 3021, 2975, 3009>>,   \* கார்டு
        <<2965, 3006, 2992, 3021, 2975, 3009, 32, 2965, 2975, 3021, 2975, 2979, 2990, 3021>>,   \* கார்டு கட்டணம்
        <<2965, 3007, 2992, 3014, 2975, 3007, 2975, 3021, 32, 2965, 3006, 2992, 3021, 2975, 3009>>   \* கிரெடிட் கார்டு
    >>,
    digital |-> <<
        <<2975, 3007, 2972, 3007, 2975, 3021, 2975, 2994, 3021>>,   \* டிஜிட்டல்
        <<2991, 3009, 2986, 3007, 2960>>,   \* யுபிஐ
        <<2997, 3006, 2994, 2975, 3021>>,   \* வாலட்
        <<2947, 2986, 3019, 2985, 3021, 2986, 3015>>,   \* ஃபோன்பே
        <<2972, 3007, 2986, 3015>>   \* ஜிபே
    >>,
    received |-> <<
        <<2965, 3007, 2975, 3016, 2980, 3021, 2980, 2980, 3009>>,   \* கிடைத்தது
        <<2986, 3014, 2993, 2986, 3021, 2986, 2975, 3021, 2975, 2980, 3009>>,   \* பெறப்பட்டது
        <<2992, 3010, 2986, 3006, 2991, 3021, 32, 2965, 3007, 2975, 3016, 2980, 3021, 2980, 2980, 3009>>,   \* ரூபாய் கிடைத்தது
        <<2965, 3015, 2999, 3021, 32, 2965, 3007, 2975, 3016, 2980, 3021, 2980, 2980, 3009>>,   \* கேஷ் கிடைத்தது
        <<2980, 3018, 2965, 3016>>   \* தொகை
    >>,
    remove |-> <<
        <<2984, 3008, 2965, 3021, 2965>>,   \* நீக்க
        <<2997, 3014, 2995, 3007, 2991, 3015, 32, 2958, 2975, 3009>>,   \* வெளியே எடு
        <<2975, 3007, 2994, 3008, 2975, 3021, 32, 2970, 3014, 2991, 3021>>   \* டிலீட் செய்
    >>,
    removeLast |-> <<
        <<2965, 2975, 3016, 2970, 3007, 2991, 3016, 32, 2984, 3008, 2965, 3021, 2965>>,   \* கடைசியை நீக்க
        <<2990, 3009, 2984, 3021, 2980, 3016, 2991, 2980, 3016, 32, 2984, 3008, 2965, 3021, 2965>>,   \* முந்தையதை நீக்க
        <<2949, 2985, 3021, 2975, 3010>>   \* அன்டூ
    >>,
    add |-> <<
        <<2970, 3015, 2992, 3021>>,   \* சேர்
        <<2958, 2975, 3009>>,   \* எடு
        <<2997, 3006, 2969, 3021, 2965>>,   \* வாங்க
        <<2965, 3018, 2975, 3009>>   \* கொடு
    >>,
    numbers |-> <<
        << <<2962, 2985, 3021, 2993, 3009>>, 1 >>,   \* ஒன்று
        << <<2951, 2992, 2979, 3021, 2975, 3009>>, 2 >>,   \* இரண்டு
        << <<2990, 3010, 2985, 3021, 2993, 3009>>, 3 >>,   \* மூன்று
        << <<2984, 3006, 2985, 3021, 2965, 3009>>, 4 >>,   \* நான்கு
        << <<2960, 2984, 3021, 2980, 3009>>, 5 >>,   \* ஐந்து
        << <<2950, 2993, 3009>>, 6 >>,   \* ஆறு
        << <<2959, 2996, 3009>>, 7 >>,   \* ஏழு
        << <<2958, 2975, 3021, 2975, 3009>>, 8 >>,   \* எட்டு
        << <<2962, 2985, 3021, 2986, 2980, 3009>>, 9 >>,   \* ஒன்பது
        << <<2986, 2980, 3021, 2980, 3009>>, 10 >>   \* பத்து
    >>
  ]
\* Property names every object literal inherits from Object.prototype: the
\* lookup keywords[baseLang] finds them although the literal does not list
\* them.
ObjectPrototypeKeys == {
    <<99, 111, 110, 115, 116, 114, 117, 99, 116, 111, 114>>,   \* constructor
    <<116, 111, 83, 116, 114, 105, 110, 103>>,   \* toString
    <<118, 97, 108, 117, 101, 79, 102>>,   \* valueOf
    <<104, 97, 115, 79, 119, 110, 80, 114, 111, 112, 101, 114, 116, 121>>,   \* hasOwnProperty
    <<95, 95, 112, 114, 111, 116, 111, 95, 95>>   \* __proto__
  }

\* What the lookup yields for an inherited name: a truthy value (a function,
\* or the prototype object) that has none of the fields of a keyword table.
InheritedMember == [inherited |-> TRUE]

\* keywords[baseLang] || keywords.en
getCommandKeywords(lang) ==
    LET baseLang == splitDash0(lang)
    IN  CASE baseLang = en -> keywords_en
          [] baseLang = hi -> keywords_hi
          [] baseLang = kn -> keywords_kn
          [] baseLang = ml -> keywords_ml
          [] baseLang = ta -> keywords_ta
          [] baseLang \in ObjectPrototypeKeys -> InheritedMember
          [] OTHER -> keywords_en

\* Object.keys(keywords.numbers)
numberWords(kw) == [i \in 1..Len(kw.numbers) |-> kw.numbers[i][1]]

\* containsAny with the last keyword of the list never tested.
containsAny_WithoutLast(text, keywords) ==
    \E k \in 1..(Len(keywords) - 1) : includes(text, keywords[k])

\* containsAny = (text, keywords) => keywords.some(k => text.includes(k))
containsAny(text, keywords) ==
    \E k \in 1..Len(keywords) : includes(text, keywords[k])

\* The unit words stripped from the residual of the add path.
units == <<
    <<112, 97, 99, 107, 101, 116>>,          \* packet
    <<112, 97, 99, 107, 101, 116, 115>>,     \* packets
    <<111, 102>>,                            \* of
    <<108, 105, 116, 101, 114>>,             \* liter
    <<108, 105, 116, 101, 114, 115>>,        \* liters
    <<98, 111, 116, 116, 108, 101>>,         \* bottle
    <<98, 111, 116, 116, 108, 101, 115>>,    \* bottles
    <<99, 97, 110>>,                         \* can
    <<99, 97, 110, 115>>,                    \* cans
    <<112, 105, 101, 99, 101>>,              \* piece
    <<112, 105, 101, 99, 101, 115>>,         \* pieces
    <<107, 103>>,                            \* kg
    <<103, 114, 97, 109>>,                   \* gram
    <<103, 114, 97, 109, 115>>               \* grams
  >>

----------------------------------------------------------------------------
(* Cash-amount extraction.  An amount is held in thousandths of the        *)
(* currency unit, so that the rounding to two decimals is an operation     *)
(* of the model and not a property of the representation.                  *)

\* Largest amount accepted, in currency units.
MaxCashAmount == 1000000

\* The capture group (\d+(?:[\.,]\d{1,2})?) matched from index a, where s[a]
\* is a digit: the greedy digit run, then at most two decimals after a dot
\* or a comma.
amountCapture(s, a) ==
    LET stops == {i \in a..Len(s) : s[i] \notin Digits}
        b == IF stops = {} THEN Len(s) ELSE MinOf(stops) - 1
        hasFrac == /\ b + 2 <= Len(s)
                   /\ s[b + 1] \in {46, 44}
                   /\ s[b + 2] \in Digits
        c == IF ~hasFrac THEN b
             ELSE IF b + 3 <= Len(s) /\ s[b + 3] \in Digits THEN b + 3
             ELSE b + 2
    IN  [int |-> SubSeq(s, a, b), frac |-> SubSeq(s, b + 2, c)]

NoMatch == [int |-> <<>>, frac |-> <<>>]

\* s.match(/(\d+(?:[\.,]\d{1,2})?)/)
amountMatch(s) ==
    LET ds == {i \in 1..Len(s) : s[i] \in Digits}
    IN  IF ds = {} THEN NoMatch ELSE amountCapture(s, MinOf(ds))

\* s.match(/[₹$]?\s*(\d+(?:[\.,]\d{1,2})?)/): the leftmost start from which an
\* optional currency sign and white space lead to a digit.
currencyMatch(s) ==
    LET afterSign(p) == IF s[p] \in {8377, 36} THEN p + 1 ELSE p
        digitFrom(p) ==
            LET q == afterSign(p)
                nonWs == {i \in q..Len(s) : s[i] \notin WhiteSpace}
            IN  IF nonWs = {} THEN 0
                ELSE IF s[MinOf(nonWs)] \in Digits THEN MinOf(nonWs) ELSE 0
        starts == {p \in 1..Len(s) : digitFrom(p) # 0}
    IN  IF starts = {} THEN NoMatch ELSE amountCapture(s, digitFrom(MinOf(starts)))

\* parseFloat(m[1].replace(',', '.')), in thousandths.
parseFloat(m) ==
    digitsValue(m.int) * 1000
      + (IF Len(m.frac) = 1 THEN digitsValue(m.frac) * 100
         ELSE IF Len(m.frac) = 2 THEN digitsValue(m.frac) * 10
         ELSE 0)

\* amountInRange without the upper limit.
amountInRange_NoLimit(amount) == amount > 0

\* amount > 0 && amount <= 1000000
amountInRange(amount) == amount > 0 /\ amount <= MaxCashAmount * 1000

\* Math.round(amount * 100) / 100, in thousandths.
roundToCents(amount) == ((amount + 5) \div 10) * 10

----------------------------------------------------------------------------
(* normalize, tokenSet, jaccard                                            *)

\* .replace(/\s+/g, r): every run of white space becomes the unit r.
replaceWhiteSpaceRuns(s, r) ==
    LET firstOfRun(i) == s[i] \in WhiteSpace /\ (i = 1 \/ s[i - 1] \notin WhiteSpace)
        marked == [i \in 1..Len(s) |-> IF firstOfRun(i) THEN r ELSE s[i]]
    IN  keepIndices(marked, LAMBDA i : s[i] \notin WhiteSpace \/ firstOfRun(i))

normalize(text) ==
    LET lowered == toLowerCase(text)
        spaced == [i \in 1..Len(lowered) |->
                      IF lowered[i] \in PunctOrSymbol THEN 32 ELSE lowered[i]]
    IN  trim(replaceWhiteSpaceRuns(spaced, 32))

\* new Set(normalize(str).split(' ').filter(Boolean))
tokenSet(str) ==
    LET n == normalize(str)
        isStart(i) == n[i] # 32 /\ (i = 1 \/ n[i - 1] = 32)
        endOf(i) == LET sp == {j \in i..Len(n) : n[j] = 32}
                    IN  IF sp = {} THEN Len(n) ELSE MinOf(sp) - 1
    IN  {SubSeq(n, i, endOf(i)) : i \in {k \in 1..Len(n) : isStart(k)}}

\* inter.size / union.size as the fraction <<numerator, denominator>>;
\* 0 when the union is empty.
jaccard(a, b) ==
    IF a \cup b = {} THEN <<0, 1>>
    ELSE <<Cardinality(a \cap b), Cardinality(a \cup b)>>

scoreGreater(x, y) == x[1] * y[2] > y[1] * x[2]

\* scoreAccepted with a strict comparison: score > 0.4.
scoreAccepted_Strict(x) == 5 * x[1] > 2 * x[2]

\* score >= 0.4
scoreAccepted(x) == 5 * x[1] >= 2 * x[2]

----------------------------------------------------------------------------
(* findProductByName: the six-stage resolver.  It returns the index of the *)
(* product in the catalog, 0 standing for null.                            *)

\* const lang = (language || i18n.language || 'en')
\* effectiveLanguage reading the UI language before the argument.
effectiveLanguage_AmbientFirst(lang, i18n) == OrElse(i18n, OrElse(lang, en))

effectiveLanguage(lang, i18n) == OrElse(lang, OrElse(i18n, en))

getProductNameInLanguage(product, lang, i18n) ==
    LET base == splitDash0(effectiveLanguage(lang, i18n))
        name == CASE base = en -> product.name_en
                  [] base = kn -> product.name_kn
                  [] base = ml -> product.name_ml
                  [] base = ta -> product.name_ta
                  [] base = hi -> product.name_hi
                  [] OTHER -> <<>>
    IN  OrElse(name, OrElse(product.name_en, product.name))

\* [p.name_en, p.name_kn, p.name_ml, p.name_ta, p.name_hi].filter(Boolean)
allNames(p) ==
    SelectSeq(<<p.name_en, p.name_kn, p.name_ml, p.name_ta, p.name_hi>>,
              LAMBDA n : n # <<>>)

\* Array.prototype.find, as the index of the first element satisfying Pred.
findFirst(prods, Pred(_)) ==
    LET hits == {i \in 1..Len(prods) : Pred(prods[i])}
    IN  IF hits = {} THEN 0 ELSE MinOf(hits)

\* The loop "if (!best || score > best.score) best = { p, score }" over the
\* candidates cands[k..]: the first candidate of maximal score.
NoBest == [p |-> 0, score |-> <<0, 1>>]

RECURSIVE bestScan(_, _, _)
bestScan(cands, k, best) ==
    IF k > Len(cands) THEN best
    ELSE bestScan(cands, k + 1,
                  IF best.p = 0 \/ scoreGreater(cands[k].score, best.score)
                  THEN cands[k] ELSE best)

\* Stage 5 candidates: one per product, scored on its active-language name.
langCandidates(prods, qTokens, lang, i18n) ==
    [i \in 1..Len(prods) |->
        [p |-> i,
         score |-> jaccard(qTokens,
                           tokenSet(getProductNameInLanguage(prods[i], lang, i18n)))]]

\* Stage 6 candidates: one per language variant of each product, in order.
RECURSIVE crossCandidates(_, _, _)
crossCandidates(prods, i, qTokens) ==
    IF i > Len(prods) THEN <<>>
    ELSE LET names == allNames(prods[i])
         IN  [k \in 1..Len(names) |->
                 [p |-> i, score |-> jaccard(qTokens, tokenSet(names[k]))]]
             \o crossCandidates(prods, i + 1, qTokens)

barcodeMatch(prods, name) ==
    LET maybeBarcode == toUpperCase(replaceWhiteSpaceRuns(name, 95))
    IN  findFirst(prods, LAMBDA p :
            /\ p.barcode # <<>>
            /\ \/ toUpperCase(p.barcode) = maybeBarcode
               \/ includes(toUpperCase(p.barcode), maybeBarcode))

\* exactMatch finding nothing: the cascade without its second stage.
exactMatch_Never(prods, normalizedName, lang, i18n) == 0

exactMatch(prods, normalizedName, lang, i18n) ==
    findFirst(prods, LAMBDA p :
        normalize(getProductNameInLanguage(p, lang, i18n)) = normalizedName)

substringMatch(prods, normalizedName, lang, i18n) ==
    findFirst(prods, LAMBDA p :
        LET normalizedProductName ==
                normalize(getProductNameInLanguage(p, lang, i18n))
        IN  \/ includes(normalizedProductName, normalizedName)
            \/ includes(normalizedName, normalizedProductName))

crossLanguageMatch(prods, normalizedName) ==
    findFirst(prods, LAMBDA p :
        \E k \in 1..Len(allNames(p)) :
            LET normalized == normalize(allNames(p)[k])
            IN  \/ normalized = normalizedName
                \/ includes(normalized, normalizedName)
                \/ includes(normalizedName, normalized))

\* fuzzyMatch returning the best candidate whatever its score.
fuzzyMatch_NoThreshold(cands) ==
    LET best == bestScan(cands, 1, NoBest)
    IN  best.p

fuzzyMatch(cands) ==
    LET best == bestScan(cands, 1, NoBest)
    IN  IF best.p # 0 /\ scoreAccepted(best.score) THEN best.p ELSE 0

\* findProductByName without its cross-language stages 4 and 6.
findProductByName_ActiveLanguageOnly(name, lang, i18n, prods) ==
    IF name = <<>> \/ trim(name) = <<>> THEN 0
    ELSE
    LET normalizedName == normalize(name)
        qTokens == tokenSet(normalizedName)
        s1 == barcodeMatch(prods, name)
        s2 == exactMatch(prods, normalizedName, lang, i18n)
        s3 == substringMatch(prods, normalizedName, lang, i18n)
        s5 == fuzzyMatch(langCandidates(prods, qTokens, lang, i18n))
    IN  IF Len(normalizedName) < 2 THEN 0
        ELSE IF Len(prods) = 0 THEN 0
        ELSE IF s1 # 0 THEN s1
        ELSE IF s2 # 0 THEN s2
        ELSE IF s3 # 0 THEN s3
        ELSE s5

\* findProductByName with the substring stage tried before the exact stage.
findProductByName_SubstringBeforeExact(name, lang, i18n, prods) ==
    IF name = <<>> \/ trim(name) = <<>> THEN 0
    ELSE
    LET normalizedName == normalize(name)
        qTokens == tokenSet(normalizedName)
        s1 == barcodeMatch(prods, name)
        s2 == exactMatch(prods, normalizedName, lang, i18n)
        s3 == substringMatch(prods, normalizedName, lang, i18n)
        s4 == crossLanguageMatch(prods, normalizedName)
        s5 == fuzzyMatch(langCandidates(prods, qTokens, lang, i18n))
        s6 == fuzzyMatch(crossCandidates(prods, 1, qTokens))
    IN  IF Len(normalizedName) < 2 THEN 0
        ELSE IF Len(prods) = 0 THEN 0
        ELSE IF s1 # 0 THEN s1
        ELSE IF s3 # 0 THEN s3
        ELSE IF s2 # 0 THEN s2
        ELSE IF s4 # 0 THEN s4
        ELSE IF s5 # 0 THEN s5
        ELSE s6

\* findProductByName without the minimum length of the normalized name.
findProductByName_NoMinimumLength(name, lang, i18n, prods) ==
    IF name = <<>> \/ trim(name) = <<>> THEN 0
    ELSE
    LET normalizedName == normalize(name)
        qTokens == tokenSet(normalizedName)
        s1 == barcodeMatch(prods, name)
        s2 == exactMatch(prods, normalizedName, lang, i18n)
        s3 == substringMatch(prods, normalizedName, lang, i18n)
        s4 == crossLanguageMatch(prods, normalizedName)
        s5 == fuzzyMatch(langCandidates(prods, qTokens, lang, i18n))
        s6 == fuzzyMatch(crossCandidates(prods, 1, qTokens))
    IN  IF Len(prods) = 0 THEN 0
        ELSE IF s1 # 0 THEN s1
        ELSE IF s2 # 0 THEN s2
        ELSE IF s3 # 0 THEN s3
        ELSE IF s4 # 0 THEN s4
        ELSE IF s5 # 0 THEN s5
        ELSE s6

findProductByName(name, lang, i18n, prods) ==
    IF name = <<>> \/ trim(name) = <<>> THEN 0
    ELSE
    LET normalizedName == normalize(name)
        qTokens == tokenSet(normalizedName)
        s1 == barcodeMatch(prods, name)
        s2 == exactMatch(prods, normalizedName, lang, i18n)
        s3 == substringMatch(prods, normalizedName, lang, i18n)
        s4 == crossLanguageMatch(prods, normalizedName)
        s5 == fuzzyMatch(langCandidates(prods, qTokens, lang, i18n))
        s6 == fuzzyMatch(crossCandidates(prods, 1, qTokens))
    IN  IF Len(normalizedName) < 2 THEN 0
        ELSE IF Len(prods) = 0 THEN 0
        ELSE IF s1 # 0 THEN s1
        ELSE IF s2 # 0 THEN s2
        ELSE IF s3 # 0 THEN s3
        ELSE IF s4 # 0 THEN s4
        ELSE IF s5 # 0 THEN s5
        ELSE s6

----------------------------------------------------------------------------
(* parseVoiceCommand                                                       *)

\* No command decided yet: control falls through to the next check.
NoCommand == [type |-> "none"]

\* simpleCommand with select-card tested before select-cash.
simpleCommand_CardBeforeCash(text, keywords) ==
    IF containsAny(text, keywords.clear)
        THEN [type |-> "clear", action |-> "clear_cart"]
    ELSE IF containsAny(text, keywords.checkout)
        THEN [type |-> "checkout", action |-> "open_payment"]
    ELSE IF containsAny(text, keywords.payNow)
        THEN [type |-> "pay_now", action |-> "confirm_payment"]
    ELSE IF containsAny(text, keywords.card)
        THEN [type |-> "pay_method", method |-> "card", action |-> "select_method"]
    ELSE IF containsAny(text, keywords.cash)
        THEN [type |-> "pay_method", method |-> "cash", action |-> "select_method"]
    ELSE IF containsAny(text, keywords.digital)
        THEN [type |-> "pay_method", method |-> "digital", action |-> "select_method"]
    ELSE NoCommand

\* simpleCommand with the payment methods tested before checkout.
simpleCommand_CashBeforeCheckout(text, keywords) ==
    IF containsAny(text, keywords.clear)
        THEN [type |-> "clear", action |-> "clear_cart"]
    ELSE IF containsAny(text, keywords.cash)
        THEN [type |-> "pay_method", method |-> "cash", action |-> "select_method"]
    ELSE IF containsAny(text, keywords.checkout)
        THEN [type |-> "checkout", action |-> "open_payment"]
    ELSE IF containsAny(text, keywords.payNow)
        THEN [type |-> "pay_now", action |-> "confirm_payment"]
    ELSE IF containsAny(text, keywords.card)
        THEN [type |-> "pay_method", method |-> "card", action |-> "select_method"]
    ELSE IF containsAny(text, keywords.digital)
        THEN [type |-> "pay_method", method |-> "digital", action |-> "select_method"]
    ELSE NoCommand

\* The six payload-free categories, tested in the order of the source.
simpleCommand(text, keywords) ==
    IF containsAny(text, keywords.clear)
        THEN [type |-> "clear", action |-> "clear_cart"]
    ELSE IF containsAny(text, keywords.checkout)
        THEN [type |-> "checkout", action |-> "open_payment"]
    ELSE IF containsAny(text, keywords.payNow)
        THEN [type |-> "pay_now", action |-> "confirm_payment"]
    ELSE IF containsAny(text, keywords.cash)
        THEN [type |-> "pay_method", method |-> "cash", action |-> "select_method"]
    ELSE IF containsAny(text, keywords.card)
        THEN [type |-> "pay_method", method |-> "card", action |-> "select_method"]
    ELSE IF containsAny(text, keywords.digital)
        THEN [type |-> "pay_method", method |-> "digital", action |-> "select_method"]
    ELSE NoCommand

\* The command built from a regular-expression match, NoCommand when there is
\* no match or the amount is out of range.
amountCommand(m) ==
    IF m # NoMatch /\ amountInRange(parseFloat(m))
    THEN [type |-> "cash_amount", amount |-> roundToCents(parseFloat(m)),
          action |-> "set_cash_amount"]
    ELSE NoCommand

\* Amount received: the plain number pattern, then the currency pattern.
cashAmountCommand(text, keywords) ==
    IF ~containsAny(text, keywords.received) THEN NoCommand
    ELSE LET plain == amountCommand(amountMatch(text))
         IN  IF plain.type # "none" THEN plain
             ELSE amountCommand(currencyMatch(text))

\* removeLastCommand naming its own result type, one the result union lacks.
removeLastCommand_OwnType(text, keywords) ==
    IF containsAny(text, keywords.removeLast)
        THEN [type |-> "remove_last", action |-> "remove_last"]
    ELSE NoCommand

removeLastCommand(text, keywords) ==
    IF containsAny(text, keywords.removeLast)
    THEN [type |-> "remove", action |-> "remove_last"]
    ELSE NoCommand

\* The residual of the remove path: remove keywords, number words and digits
\* deleted, then trimmed.
removeResidual(text, keywords) ==
    trim(removeDigits(replaceEach(replaceEach(text, keywords.remove),
                                  numberWords(keywords))))

removeCommand(text, keywords, lang, i18n, prods) ==
    IF ~containsAny(text, keywords.remove) THEN NoCommand
    ELSE LET product == findProductByName(removeResidual(text, keywords),
                                          lang, i18n, prods)
         IN  IF product # 0
             THEN [type |-> "remove", product |-> prods[product],
                   action |-> "remove_product"]
             ELSE NoCommand

\* clampQuantity without the upper clamp.
clampQuantity_NoUpper(n) == IF n < 1 THEN 1 ELSE n

\* Math.max(1, Math.min(n, 100))
clampQuantity(n) == IF n < 1 THEN 1 ELSE IF n > 100 THEN 100 ELSE n

\* extractQuantity reading digits only, the number words ignored.
extractQuantity_DigitsOnly(text, keywords) ==
    LET run == firstDigitRun(text)
        parsed == IF digitsValue(run) = 0 THEN 1 ELSE digitsValue(run)
    IN  IF run # <<>>
        THEN [quantity |-> clampQuantity(parsed), quantityText |-> run]
        ELSE [quantity |-> 1, quantityText |-> <<>>]

\* Quantity extraction: the first number word of the table that occurs in the
\* text, and the first digit run when the quantity is still 1 after that.
extractQuantity(text, keywords) ==
    LET found == {k \in 1..Len(keywords.numbers) :
                      includes(text, keywords.numbers[k][1])}
        byWord == IF found = {} THEN [quantity |-> 1, quantityText |-> <<>>]
                  ELSE [quantity |-> clampQuantity(keywords.numbers[MinOf(found)][2]),
                        quantityText |-> keywords.numbers[MinOf(found)][1]]
        run == firstDigitRun(text)
        parsed == IF digitsValue(run) = 0 THEN 1 ELSE digitsValue(run)
    IN  IF byWord.quantity = 1 /\ run # <<>>
        THEN [quantity |-> clampQuantity(parsed), quantityText |-> run]
        ELSE byWord

\* The residual of the add path: add keywords, the quantity text, number
\* words, digits and unit words deleted, then trimmed.
addResidual(text, keywords, quantityText) ==
    LET noAdd == replaceEach(text, keywords.add)
        noQty == IF quantityText # <<>> THEN replaceAll(noAdd, quantityText)
                 ELSE noAdd
        noNum == replaceEach(noQty, numberWords(keywords))
    IN  trim(replaceEach(removeDigits(noNum), units))

addCommand(text, keywords, lang, i18n, prods) ==
    LET q == extractQuantity(text, keywords)
        product == findProductByName(addResidual(text, keywords, q.quantityText),
                                     lang, i18n, prods)
    IN  IF product # 0
        THEN [type |-> "add", product |-> prods[product], quantity |-> q.quantity]
        ELSE [type |-> "unknown", action |-> "product_not_found"]

\* The call does not return: keywords.clear is undefined and
\* containsAny reads keywords.some of it.
TypeError == [type |-> "TypeError"]

parseVoiceCommand(t, languageArg, i18n, prods) ==
    IF t = <<>> THEN [type |-> "unknown", action |-> "invalid_input"]
    ELSE
    LET lang == effectiveLanguage(languageArg, i18n)
        normalizedTranscript == trim(toLowerCase(t))
        keywords == getCommandKeywords(lang)
        simple == simpleCommand(normalizedTranscript, keywords)
        cash == cashAmountCommand(normalizedTranscript, keywords)
        last == removeLastCommand(normalizedTranscript, keywords)
        remove == removeCommand(normalizedTranscript, keywords, lang, i18n, prods)
    IN  IF Len(normalizedTranscript) < 1
            THEN [type |-> "unknown", action |-> "empty_transcript"]
        ELSE IF "clear" \notin DOMAIN keywords THEN TypeError
        ELSE IF simple.type # "none" THEN simple
        ELSE IF cash.type # "none" THEN cash
        ELSE IF last.type # "none" THEN last
        ELSE IF remove.type # "none" THEN remove
        ELSE addCommand(normalizedTranscript, keywords, lang, i18n, prods)

----------------------------------------------------------------------------
(* Catalogs.  A product record carries the fields of the Product interface *)
(* the parser and the resolver read; prices are in hundredths.             *)

Product(id, name_en, name_kn, name_ml, name_ta, name_hi, price, stock, barcode) ==
    [id |-> id, name |-> name_en, name_en |-> name_en, name_kn |-> name_kn,
     name_ml |-> name_ml, name_ta |-> name_ta, name_hi |-> name_hi,
     price |-> price, stock |-> stock, barcode |-> barcode]

\* MOCK_PRODUCTS: English names only, no barcodes.
MOCK_PRODUCTS == <<
    Product("1", <<67, 111, 99, 97, 32, 67, 111, 108, 97>>, <<>>, <<>>, <<>>, <<>>, 250, 100, <<>>),   \* Coca Cola
    Product("2", <<80, 101, 112, 115, 105>>, <<>>, <<>>, <<>>, <<>>, 250, 85, <<>>),   \* Pepsi
    Product("3", <<66, 114, 101, 97, 100>>, <<>>, <<>>, <<>>, <<>>, 320, 50, <<>>),   \* Bread
    Product("4", <<77, 105, 108, 107>>, <<>>, <<>>, <<>>, <<>>, 480, 30, <<>>),   \* Milk
    Product("5", <<67, 104, 105, 112, 115>>, <<>>, <<>>, <<>>, <<>>, 199, 75, <<>>),   \* Chips
    Product("6", <<67, 104, 111, 99, 111, 108, 97, 116, 101, 32, 66, 97, 114>>, <<>>, <<>>, <<>>, <<>>, 225, 60, <<>>),   \* Chocolate Bar
    Product("7", <<65, 112, 112, 108, 101>>, <<>>, <<>>, <<>>, <<>>, 99, 120, <<>>),   \* Apple
    Product("8", <<66, 97, 110, 97, 110, 97>>, <<>>, <<>>, <<>>, <<>>, 79, 90, <<>>),   \* Banana
    Product("9", <<79, 114, 97, 110, 103, 101, 32, 74, 117, 105, 99, 101>>, <<>>, <<>>, <<>>, <<>>, 550, 40, <<>>),   \* Orange Juice
    Product("10", <<67, 111, 111, 107, 105, 101, 115>>, <<>>, <<>>, <<>>, <<>>, 375, 45, <<>>),   \* Cookies
    Product("11", <<67, 104, 101, 101, 115, 101>>, <<>>, <<>>, <<>>, <<>>, 620, 25, <<>>),   \* Cheese
    Product("12", <<89, 111, 103, 117, 114, 116>>, <<>>, <<>>, <<>>, <<>>, 185, 55, <<>>)   \* Yogurt
  >>

\* A catalog as fetchAllProducts maps it from the remote table: a row of the
\* seed data with its five names and its barcode, and two rows with an
\* English name only.
REMOTE_PRODUCTS == <<
    \* Frooti Mango Drink 200ml / ಫ್ರೂಟಿ ಮಾವಿನ ಪಾನೀಯ 200ಮಿಲಿ / ഫ്രൂട്ടി മാങ്ങാ ഡ്രിങ്ക് 200മില്ലി / ஃப்ரூட்டி மாம்பழ பானம் 200மிலி / फ्रूटी मैंगो ड्रिंक 200मिली, FROOTI_MANGO_200ML
    Product("f1", <<70, 114, 111, 111, 116, 105, 32, 77, 97, 110, 103, 111, 32, 68, 114, 105, 110, 107, 32, 50, 48, 48, 109, 108>>,
            <<3243, 3277, 3248, 3266, 3231, 3263, 32, 3246, 3262, 3253, 3263, 3240, 32, 3242, 3262, 3240, 3264, 3247, 32, 50, 48, 48, 3246, 3263, 3250, 3263>>,
            <<3371, 3405, 3376, 3394, 3359, 3405, 3359, 3391, 32, 3374, 3390, 3353, 3405, 3353, 3390, 32, 3361, 3405, 3376, 3391, 3353, 3405, 3349, 3405, 32, 50, 48, 48, 3374, 3391, 3378, 3405, 3378, 3391>>,
            <<2947, 2986, 3021, 2992, 3010, 2975, 3021, 2975, 3007, 32, 2990, 3006, 2990, 3021, 2986, 2996, 32, 2986, 3006, 2985, 2990, 3021, 32, 50, 48, 48, 2990, 3007, 2994, 3007>>,
            <<2347, 2381, 2352, 2370, 2335, 2368, 32, 2350, 2376, 2306, 2327, 2379, 32, 2337, 2381, 2352, 2367, 2306, 2325, 32, 50, 48, 48, 2350, 2367, 2354, 2368>>,
            149, 120, <<70, 82, 79, 79, 84, 73, 95, 77, 65, 78, 71, 79, 95, 50, 48, 48, 77, 76>>),
    Product("s2", <<82, 101, 109, 111, 118, 101, 114>>, <<>>, <<>>, <<>>, <<>>, 499, 10, <<>>),   \* Remover
    Product("c3", <<67, 104, 105, 112, 115>>, <<>>, <<>>, <<>>, <<>>, 199, 75, <<>>)   \* Chips
  >>

Catalogs == {MOCK_PRODUCTS, REMOTE_PRODUCTS}

----------------------------------------------------------------------------
(* Further catalogs fetchAllProducts can load: rows of the products table  *)
(* are arbitrary, so names may be short, contain one another, or occur in  *)
(* a barcode of another row.                                               *)

\* A product with a one-character name and a barcode that starts with it.
SINGLE_LETTER_PRODUCTS == <<
    \* A, A1
    Product("a1", <<65>>, <<>>, <<>>, <<>>, <<>>, 100, 10, <<65, 49>>)
  >>

\* Names that contain one another, and a barcode that contains a name of
\* another row.
CASCADE_PRODUCTS == <<
    \* Chips Masala
    Product("k1", <<67, 104, 105, 112, 115, 32, 77, 97, 115, 97, 108, 97>>, <<>>, <<>>, <<>>, <<>>, 100, 10, <<>>),
    \* Lays, CHIPS_LAYS
    Product("k2", <<76, 97, 121, 115>>, <<>>, <<>>, <<>>, <<>>, 100, 10, <<67, 72, 73, 80, 83, 95, 76, 65, 89, 83>>),
    \* Chips
    Product("k3", <<67, 104, 105, 112, 115>>, <<>>, <<>>, <<>>, <<>>, 100, 10, <<>>),
    \* Milk Bread
    Product("k4", <<77, 105, 108, 107, 32, 66, 114, 101, 97, 100>>, <<>>, <<>>, <<>>, <<>>, 100, 10, <<>>),
    \* Milk
    Product("k5", <<77, 105, 108, 107>>, <<>>, <<>>, <<>>, <<>>, 100, 10, <<>>)
  >>

\* Rows with a Hindi name: one Hindi name contains another, and one is in
\* Latin script.
CROSS_PRODUCTS == <<
    \* Tea Masala / चाय मसाला
    Product("x1", <<84, 101, 97, 32, 77, 97, 115, 97, 108, 97>>, <<>>, <<>>, <<>>, <<2330, 2366, 2351, 32, 2350, 2360, 2366, 2354, 2366>>, 100, 10, <<>>),
    \* Masala / मसाला
    Product("x2", <<77, 97, 115, 97, 108, 97>>, <<>>, <<>>, <<>>, <<2350, 2360, 2366, 2354, 2366>>, 100, 10, <<>>),
    \* Chai / Masala Chai
    Product("x3", <<67, 104, 97, 105>>, <<>>, <<>>, <<>>, <<77, 97, 115, 97, 108, 97, 32, 67, 104, 97, 105>>, 100, 10, <<>>)
  >>

\* Two names with the same four tokens in different orders.
JACCARD_TIE_PRODUCTS == <<
    \* Apple Juice Big Pack
    Product("j1", <<65, 112, 112, 108, 101, 32, 74, 117, 105, 99, 101, 32, 66, 105, 103, 32, 80, 97, 99, 107>>, <<>>, <<>>, <<>>, <<>>, 100, 10, <<>>),
    \* Big Apple Juice Pack
    Product("j2", <<66, 105, 103, 32, 65, 112, 112, 108, 101, 32, 74, 117, 105, 99, 101, 32, 80, 97, 99, 107>>, <<>>, <<>>, <<>>, <<>>, 100, 10, <<>>)
  >>

\* The same two rows followed by one with three other tokens.
JACCARD_MAX_PRODUCTS ==
    Append(JACCARD_TIE_PRODUCTS,
           Product("j3", <<74, 117, 105, 99, 101, 32, 77, 97, 110, 103, 111, 32, 80, 97, 99, 107>>, <<>>, <<>>, <<>>, <<>>, 100, 10, <<>>))   \* Juice Mango Pack

FixtureCatalogs == {SINGLE_LETTER_PRODUCTS, CASCADE_PRODUCTS, CROSS_PRODUCTS,
                    JACCARD_TIE_PRODUCTS, JACCARD_MAX_PRODUCTS}

----------------------------------------------------------------------------
(* Inputs.  A transcript is a blank string or a run of phrases joined by   *)
(* single spaces.  Command transcripts are built from the literals of the  *)
(* payload-free categories and of remove-last; slot transcripts from       *)
(* keywords of the remaining categories, number words, numbers, amounts    *)
(* and product names.                                                      *)

\* Number of phrases in a transcript.
MaxFragments == 2

Range(f) == {f[i] : i \in DOMAIN f}

\* Commands of the README (English), as it capitalises them.
ReadmeCommands == {
    <<67, 108, 101, 97, 114, 32, 99, 97, 114, 116>>,   \* Clear cart
    <<80, 97, 121, 32, 119, 105, 116, 104, 32, 99, 97, 115, 104>>,   \* Pay with cash
    <<82, 101, 109, 111, 118, 101, 32, 108, 97, 115, 116, 32, 105, 116, 101, 109>>   \* Remove last item
  }

\* Slot phrases offered in every language.
CommonSlotPhrases == {
    <<99, 104, 105, 112, 115>>,   \* chips
    <<53, 48, 48>>,   \* 500
    <<53>>   \* 5
  }

\* Slot phrases offered in English.
EnglishSlotPhrases == {
    <<114, 101, 109, 111, 118, 101, 114>>,   \* remover
    <<112, 97, 99, 107, 101, 116, 115, 32, 111, 102>>,   \* packets of
    <<48>>,   \* 0
    <<45, 53>>,   \* -5
    <<53, 48, 32, 100, 111, 108, 108, 97, 114, 115>>,   \* 50 dollars
    <<8377, 52, 53, 46, 53>>,   \* ₹45.5
    <<49, 48, 48, 48, 48, 48, 49>>,   \* 1000001
    <<49, 50, 46, 51, 52, 53>>,   \* 12.345
    <<65, 100, 100, 32, 116, 119, 111, 32, 112, 97, 99, 107, 101, 116, 115, 32, 111, 102, 32, 99, 104, 105, 112, 115>>   \* Add two packets of chips
  }

\* Slot phrases offered in Hindi.
HindiSlotPhrases == {
    <<2346, 2330, 2366, 2360>>   \* पचास
  }

CommandPhrases(lang) ==
    LET kw == getCommandKeywords(lang)
    IN  Range(kw.clear) \cup Range(kw.checkout) \cup Range(kw.payNow)
          \cup Range(kw.cash) \cup Range(kw.card) \cup Range(kw.digital)
          \cup Range(kw.removeLast)
          \cup (IF splitDash0(lang) = en THEN ReadmeCommands ELSE {})

SlotPhrases(lang) ==
    LET kw == getCommandKeywords(lang)
    IN  {kw.received[3], kw.received[5], kw.remove[1], kw.remove[2],
         kw.removeLast[Len(kw.removeLast)], kw.add[1],
         kw.numbers[1][1], kw.numbers[2][1]}
          \cup CommonSlotPhrases
          \cup (IF splitDash0(lang) = en THEN EnglishSlotPhrases ELSE {})
          \cup (IF splitDash0(lang) = hi THEN HindiSlotPhrases ELSE {})

RECURSIVE Joined(_, _)
Joined(pool, n) ==
    IF n <= 1 THEN pool
    ELSE {a \o <<32>> \o b : a \in pool, b \in Joined(pool, n - 1)}

UpTo(pool) == UNION {Joined(pool, n) : n \in 1..MaxFragments}

BlankTranscripts == {<<>>, <<32>>, <<32, 9, 32>>}

CommandTranscripts(lang) == BlankTranscripts \cup UpTo(CommandPhrases(lang))

SlotTranscripts(lang) == UpTo(SlotPhrases(lang))

\* Transcripts of three and more words: a number word of value 1 and one of
\* value 2 followed by a digit and a product name, a word no catalog knows,
\* and spellings of one command that differ in case, punctuation and
\* white space only.
ExampleTranscripts(lang) ==
    LET kw == getCommandKeywords(lang)
    IN  {kw.numbers[1][1] \o <<32, 53, 32, 99, 104, 105, 112, 115>>,   \* <one> 5 chips
         kw.numbers[2][1] \o <<32, 53, 32, 99, 104, 105, 112, 115>>,   \* <two> 5 chips
         <<97, 115, 100, 107, 106, 97, 115, 106, 107, 100>>}   \* asdkjasjkd
          \cup (IF splitDash0(lang) = en
                THEN {<<99, 104, 101, 99, 107, 32, 111, 117, 116>>,   \* check out
                      <<99, 104, 101, 99, 107, 45, 111, 117, 116>>,   \* check-out
                      <<99, 104, 101, 99, 107, 32, 32, 111, 117, 116>>,   \* check  out
                      <<67, 104, 101, 99, 107, 44, 32, 111, 117, 116, 33>>,   \* Check, out!
                      <<112, 114, 105, 110, 116, 32, 114, 101, 99, 101, 105, 112, 116>>}   \* print receipt
                ELSE {})

Languages == {en, hi, kn, ml, ta}

\* Language codes with a region, codes of no table, and codes that name an
\* inherited property.
OtherLanguageCodes == {
    <<101, 110, 45, 85, 83>>,   \* en-US
    <<104, 105, 45, 73, 78>>,   \* hi-IN
    <<102, 114>>,   \* fr
    <<102, 114, 45, 67, 65>>,   \* fr-CA
    <<99, 111, 110, 115, 116, 114, 117, 99, 116, 111, 114>>,   \* constructor
    <<116, 111, 83, 116, 114, 105, 110, 103>>   \* toString
  }

\* Transcripts tried with those codes.
OtherTranscripts ==
    BlankTranscripts \cup ExampleTranscripts(en) \cup ExampleTranscripts(hi)
      \cup ReadmeCommands
      \cup {<<65, 100, 100, 32, 116, 119, 111, 32, 112, 97, 99, 107, 101, 116, 115, 32, 111, 102, 32, 99, 104, 105, 112, 115>>,   \* Add two packets of chips
            <<114, 101, 99, 101, 105, 118, 101, 100, 32, 53, 48, 32, 100, 111, 108, 108, 97, 114, 115>>,   \* received 50 dollars
            <<114, 101, 109, 111, 118, 101, 32, 99, 104, 105, 112, 115>>}   \* remove chips

----------------------------------------------------------------------------
(* The state machine: parseVoiceCommand applied to a transcript.           *)

NoResult == [type |-> "none"]

\* The service as constructed: no bills, no call made, nothing fetched.
ServiceIdle ==
    /\ bills = <<>>
    /\ calls = <<>>
    /\ fetched = <<>>

\* The dashboard before anybody logged in: empty cart, no session.
DashboardIdle ==
    /\ cart = <<>>
    /\ added = <<>>
    /\ currentUser = 0
    /\ session = 0
    /\ isAuthenticated = FALSE
    /\ loggedOut = FALSE

\* The speech service as constructed by setupRecognition.
SpeechIdle ==
    /\ isListening = FALSE
    /\ onResult = 0
    /\ onError = 0
    /\ onEnd = 0
    /\ recognition_lang = "en-US"
    /\ recognizer = "idle"
    /\ started = <<>>
    /\ delivered = <<>>

UiIdle == DashboardIdle /\ recognition = "present" /\ SpeechIdle

Init ==
    /\ i18n_language = en
    /\ \/ /\ language \in Languages
          /\ \/ products = MOCK_PRODUCTS /\ transcript \in CommandTranscripts(language)
             \/ products \in Catalogs /\ transcript \in SlotTranscripts(language)
             \/ /\ products \in Catalogs \cup {SINGLE_LETTER_PRODUCTS}
                /\ transcript \in ExampleTranscripts(language)
       \/ /\ language \in OtherLanguageCodes
          /\ products \in Catalogs
          /\ transcript \in OtherTranscripts
    /\ pc = "ready"
    /\ result = NoResult
    /\ searchName = <<>>
    /\ foundProduct = 0
    /\ ServiceIdle
    /\ UiIdle

ParseVoiceCommand ==
    /\ pc = "ready"
    /\ result' = parseVoiceCommand(transcript, language, i18n_language, products)
    /\ pc' = "done"
    /\ UNCHANGED <<products, i18n_language, transcript, language, searchName,
                   foundProduct, serviceVars, uiVars>>

Next == ParseVoiceCommand

Spec == Init /\ [][Next]_vars

----------------------------------------------------------------------------
(* The resolver on its own: findProductByName applied to a name, against   *)
(* the built-in, the remote and the further catalogs.  The names are the   *)
(* localized names of the catalog's products, the empty name, and          *)
(* residuals as the parser hands them over.                                *)

ResolverCatalogs == Catalogs \cup FixtureCatalogs

\* Every localized name of every product of the catalog.
ProductNames(prods) == UNION {Range(allNames(prods[i])) : i \in 1..Len(prods)}

ResidualNames == {
    <<>>,
    <<99, 104, 105, 112, 115>>,   \* chips
    <<109, 105, 108, 107>>,   \* milk
    <<109, 97, 115, 97, 108, 97>>,   \* masala
    <<109, 97, 110, 103, 111, 32, 106, 117, 105, 99, 101, 32, 112, 97, 99, 107>>,   \* mango juice pack
    <<109, 97, 110, 103, 111, 32, 106, 117, 105, 99, 101>>,   \* mango juice
    <<109, 97, 110, 103, 111, 32, 102, 114, 111, 111, 116, 105, 32, 100, 114, 105, 110, 107>>,   \* mango frooti drink
    <<97>>,   \* a
    <<65>>,   \* A
    <<32>>,   \* a blank
    <<45>>,   \* -
    <<97, 33>>,   \* a!
    <<97, 115, 100, 107, 106, 97, 115, 106, 107, 100>>   \* asdkjasjkd
  }

ResolverInit ==
    /\ i18n_language = en
    /\ language \in Languages
    /\ products \in ResolverCatalogs
    /\ searchName \in ProductNames(products) \cup ResidualNames
    /\ pc = "ready"
    /\ foundProduct = 0
    /\ transcript = <<>>
    /\ result = NoResult
    /\ ServiceIdle
    /\ UiIdle

FindProductByName ==
    /\ pc = "ready"
    /\ foundProduct' = findProductByName(searchName, language, i18n_language, products)
    /\ pc' = "done"
    /\ UNCHANGED <<products, i18n_language, transcript, language, result,
                   searchName, serviceVars, uiVars>>

ResolverNext == FindProductByName

ResolverSpec == ResolverInit /\ [][ResolverNext]_vars

----------------------------------------------------------------------------
(* The service over time: the catalog is fetched and refetched, the UI     *)
(* language changes, bills are created, and the parser and the resolver    *)
(* are called again and again.                                             *)

\* fetchRetryCount
fetchRetryCount == 3

\* retryRequest(fn, retries), for a request whose next `failures` attempts
\* throw: it is retried while retries are left.
RECURSIVE retryRequest(_, _)
retryRequest(failures, retries) ==
    IF failures = 0 THEN "ok"
    ELSE IF retries > 0 THEN retryRequest(failures - 1, retries - 1)
    ELSE "error"

\* validateProduct, on rows whose price and stock are numbers.
validateProduct(p) ==
    /\ p.id # ""
    /\ p.name_en # <<>>
    /\ p.price >= 0
    /\ p.stock >= 0

\* p[`name_${currentLang}`]
localizedField(p, lang) ==
    CASE lang = en -> p.name_en
      [] lang = kn -> p.name_kn
      [] lang = ml -> p.name_ml
      [] lang = ta -> p.name_ta
      [] lang = hi -> p.name_hi
      [] OTHER -> <<>>

UnknownProduct == <<85, 110, 107, 110, 111, 119, 110, 32, 80, 114, 111, 100, 117, 99, 116>>   \* Unknown Product

\* The product a valid row is mapped to, its name in the current language.
mapRow(p, currentLang) ==
    LET productName == trim(OrElse(localizedField(p, currentLang), p.name_en))
    IN  [id |-> p.id,
         name |-> OrElse(productName, OrElse(p.name_en, UnknownProduct)),
         name_en |-> OrElse(trim(p.name_en), UnknownProduct),
         name_kn |-> trim(p.name_kn),
         name_ml |-> trim(p.name_ml),
         name_ta |-> trim(p.name_ta),
         name_hi |-> trim(p.name_hi),
         price |-> IF p.price > 0 THEN p.price ELSE 0,
         stock |-> IF p.stock > 0 THEN p.stock ELSE 0,
         barcode |-> trim(p.barcode)]

\* (data || []).filter(validateProduct).map(...)
mapped(rows, currentLang) ==
    LET valid == SelectSeq(rows, validateProduct)
    IN  [k \in 1..Len(valid) |-> mapRow(valid[k], currentLang)]

\* storeMapped keeping an empty list.
storeMapped_KeepEmpty(list) == list

\* if (mapped.length === 0) this.products = MOCK_PRODUCTS
\* else this.products = mapped
storeMapped(list) == IF Len(list) = 0 THEN MOCK_PRODUCTS ELSE list

\* fetchAllProducts: the new product list and the value the promise
\* resolves to, from the list held, the number of failing attempts of the
\* request, the rows it returns and the UI language.
fetchAllProducts(held, failures, rows, i18n) ==
    IF retryRequest(failures, fetchRetryCount) = "error"
    THEN IF Len(held) > 0 THEN [products |-> held, value |-> held]
         ELSE [products |-> MOCK_PRODUCTS, value |-> MOCK_PRODUCTS]
    ELSE IF Len(rows) = 0
    THEN [products |-> held,
          value |-> IF Len(held) > 0 THEN held ELSE MOCK_PRODUCTS]
    ELSE LET stored == storeMapped(mapped(rows, splitDash0(OrElse(i18n, en))))
         IN  [products |-> stored, value |-> stored]

\* Rows the products table can hold: invalid ones (no English name, a
\* negative price) and the rows of the remote catalog.
InvalidRows == <<
    Product("n1", <<>>, <<>>, <<>>, <<>>, <<>>, 100, 10, <<>>),
    Product("n2", <<83, 111, 97, 112>>, <<>>, <<>>, <<>>, <<>>, -100, 10, <<>>)   \* Soap
  >>

RowSets == {<<>>, InvalidRows, InvalidRows \o REMOTE_PRODUCTS}

\* A request that succeeds at once, one that succeeds on the last retry,
\* and one that fails on every attempt.
Failures == {0, fetchRetryCount, fetchRetryCount + 1}

\* createBill, in hundredths: the bill for the items, or none when the
\* call throws (no items, no valid items).
createBill(items, cashierId) ==
    LET validItems == SelectSeq(items, LAMBDA item :
                          item.quantity > 0 /\ item.totalPrice >= 0
                            /\ item.product.price >= 0)
        RECURSIVE sum(_)
        sum(k) == IF k = 0 THEN 0 ELSE sum(k - 1) + validItems[k].totalPrice
        subtotal == sum(Len(validItems))
        tax == (subtotal * 8 + 50) \div 100
    IN  IF Len(items) = 0 \/ cashierId = "" \/ Len(validItems) = 0 THEN <<>>
        ELSE <<[items |-> validItems, subtotal |-> subtotal, tax |-> tax,
                total |-> subtotal + tax, cashierId |-> cashierId]>>

\* Numbers of bills and of recorded calls the model follows.
MaxBills == 1
MaxCalls == 2

\* The transcripts, language arguments and names of the repeated calls.
ServiceTranscripts == {
    <<67, 108, 101, 97, 114, 32, 99, 97, 114, 116>>,   \* Clear cart
    <<97, 100, 100, 32, 116, 119, 111, 32, 102, 114, 111, 111, 116, 105>>   \* add two frooti
  }
ServiceLanguages == {<<>>, en}
ServiceNames == {
    <<99, 104, 105, 112, 115>>   \* chips
  }

ServiceInit ==
    /\ products = MOCK_PRODUCTS
    /\ i18n_language = en
    /\ transcript = <<>>
    /\ language = <<>>
    /\ pc = "ready"
    /\ result = NoResult
    /\ searchName = <<>>
    /\ foundProduct = 0
    /\ ServiceIdle
    /\ UiIdle

FetchAllProducts ==
    \E failures \in Failures, rows \in RowSets :
        LET r == fetchAllProducts(products, failures, rows, i18n_language)
        IN  /\ products' = r.products
            /\ fetched' = [status |-> "resolved", value |-> r.value]
            /\ UNCHANGED <<i18n_language, transcript, language, pc, result,
                           searchName, foundProduct, bills, calls,
                           uiVars>>

\* i18n.changeLanguage, from the language switcher.
ChangeLanguage ==
    /\ i18n_language' \in {en, hi} \ {i18n_language}
    /\ UNCHANGED <<products, transcript, language, pc, result, searchName,
                   foundProduct, serviceVars, uiVars>>

CallParseVoiceCommand ==
    /\ Len(calls) < MaxCalls
    /\ \E t \in ServiceTranscripts, l \in ServiceLanguages :
        /\ transcript' = t
        /\ language' = l
        /\ result' = parseVoiceCommand(t, l, i18n_language, products)
        /\ calls' = Append(calls, [transcript |-> t, language |-> l,
                                    products |-> products, result |-> result'])
    /\ UNCHANGED <<products, i18n_language, pc, searchName, foundProduct,
                   bills, fetched, uiVars>>

\* A resolver call that moves the product found to the front of the list.
CallFindProductByName_MoveToFront ==
    /\ \E n \in ServiceNames, l \in ServiceLanguages :
        LET k == findProductByName(n, l, i18n_language, products)
        IN  /\ searchName' = n
            /\ foundProduct' = k
            /\ products' = IF k = 0 THEN products
                           ELSE <<products[k]>>
                                  \o SubSeq(products, 1, k - 1)
                                  \o SubSeq(products, k + 1, Len(products))
    /\ UNCHANGED <<i18n_language, transcript, language, pc, result,
                   serviceVars, uiVars>>

CallFindProductByName ==
    /\ \E n \in ServiceNames, l \in ServiceLanguages :
        /\ searchName' = n
        /\ foundProduct' = findProductByName(n, l, i18n_language, products)
    /\ UNCHANGED <<products, i18n_language, transcript, language, pc, result,
                   serviceVars, uiVars>>

CreateBill ==
    /\ Len(bills) < MaxBills
    /\ \E q \in {0, 2} :
        bills' = bills \o createBill(
                     <<[product |-> MOCK_PRODUCTS[1], quantity |-> q,
                        totalPrice |-> q * MOCK_PRODUCTS[1].price]>>, "1")
    /\ UNCHANGED <<products, i18n_language, transcript, language, pc, result,
                   searchName, foundProduct, calls, fetched, uiVars>>

ServiceNext ==
    \/ FetchAllProducts
    \/ ChangeLanguage
    \/ CallParseVoiceCommand
    \/ CallFindProductByName
    \/ CreateBill

ServiceSpec == ServiceInit /\ [][ServiceNext]_vars

----------------------------------------------------------------------------
(* The billing dashboard: the cart, and the session behind the login and   *)
(* logout controls.                                                        *)

\* A catalog with little stock, so that the stock limits are met.
STOCK_PRODUCTS == <<
    Product("c1", <<67, 104, 105, 112, 115>>, <<>>, <<>>, <<>>, <<>>, 199, 2, <<>>),   \* Chips
    Product("m2", <<77, 105, 108, 107>>, <<>>, <<>>, <<>>, <<>>, 480, 3, <<>>),   \* Milk
    Product("s3", <<83, 111, 97, 112>>, <<>>, <<>>, <<>>, <<>>, 150, 0, <<>>)   \* Soap
  >>

\* prevCart.find(item => item.product.id === id)?.quantity, 0 when absent
quantityInCart(prevCart, id) ==
    LET hits == SelectSeq(prevCart, LAMBDA item : item.product.id = id)
    IN  IF Len(hits) = 0 THEN 0 ELSE hits[1].quantity

\* prevCart.map(item => item.product.id === id ? {...item, quantity,
\* totalPrice} : item)
setQuantity(prevCart, id, quantity, price) ==
    [k \in 1..Len(prevCart) |->
        IF prevCart[k].product.id = id
        THEN [product |-> prevCart[k].product, quantity |-> quantity,
              totalPrice |-> quantity * price]
        ELSE prevCart[k]]

\* Math.max(1, Math.floor(Number(quantity) || 1)), for an integer
sanitizedAddQuantity(quantity) == IF quantity >= 1 THEN quantity ELSE 1

\* addToCart's state update: the cart after addToCart(product, quantity).
addToCart(prevCart, product, quantity) ==
    LET sanitizedQuantity == sanitizedAddQuantity(quantity)
        availableStock == product.stock
        existingItem == \E k \in 1..Len(prevCart) :
                            prevCart[k].product.id = product.id
        currentQuantity == quantityInCart(prevCart, product.id)
        newQuantity == currentQuantity + sanitizedQuantity
        maxAddable == IF availableStock - currentQuantity > 0
                      THEN availableStock - currentQuantity ELSE 0
    IN  IF newQuantity > availableStock
        THEN IF maxAddable <= 0 THEN prevCart
             ELSE setQuantity(prevCart, product.id,
                              currentQuantity + maxAddable, product.price)
        ELSE IF existingItem
        THEN setQuantity(prevCart, product.id, newQuantity, product.price)
        ELSE Append(prevCart, [product |-> product,
                               quantity |-> sanitizedQuantity,
                               totalPrice |-> sanitizedQuantity * product.price])

\* updateCartQuantity without the stock limit.
updateCartQuantity_NoStockLimit(prevCart, productId, quantity) ==
    LET sanitizedQuantity == IF quantity > 0 THEN quantity ELSE 0
        hits == SelectSeq(prevCart, LAMBDA i : i.product.id = productId)
    IN  IF Len(hits) = 0 THEN prevCart
        ELSE IF sanitizedQuantity = 0
        THEN SelectSeq(prevCart, LAMBDA i : i.product.id # productId)
        ELSE setQuantity(prevCart, productId, sanitizedQuantity,
                         hits[1].product.price)

\* updateCartQuantity's state update, for an integer quantity.
updateCartQuantity(prevCart, productId, quantity) ==
    LET sanitizedQuantity == IF quantity > 0 THEN quantity ELSE 0
        hits == SelectSeq(prevCart, LAMBDA i : i.product.id = productId)
        maxQuantity == hits[1].product.stock
        finalQuantity == IF sanitizedQuantity < maxQuantity
                         THEN sanitizedQuantity ELSE maxQuantity
    IN  IF Len(hits) = 0 THEN prevCart
        ELSE IF finalQuantity = 0
        THEN SelectSeq(prevCart, LAMBDA i : i.product.id # productId)
        ELSE setQuantity(prevCart, productId, finalQuantity,
                         hits[1].product.price)

\* removeFromCart's state update.
removeFromCart(prevCart, productId) ==
    SelectSeq(prevCart, LAMBDA item : item.product.id # productId)

\* The record of an addToCart call.
addRecord(prevCart, product, quantity) ==
    [id |-> product.id, stock |-> product.stock, quantity |-> quantity,
     before |-> quantityInCart(prevCart, product.id)]

\* handleVoiceCommand's switch (result.type): the cart and the addToCart
\* record after the command; a parser that threw ends in the catch block.
switchResultType(prevCart, r) ==
    LET same == [cart |-> prevCart, added |-> <<>>]
    IN  IF r.type = "add"
        THEN IF "product" \in DOMAIN r /\ r.quantity # 0
             THEN IF r.product.stock <= 0 THEN same
                  ELSE [cart |-> addToCart(prevCart, r.product, r.quantity),
                        added |-> addRecord(prevCart, r.product, r.quantity)]
             ELSE same
        ELSE IF r.type = "remove"
        THEN IF r.action = "remove_last" /\ Len(prevCart) > 0
             THEN [cart |-> removeFromCart(prevCart,
                                prevCart[Len(prevCart)].product.id),
                   added |-> <<>>]
             ELSE IF "product" \in DOMAIN r
             THEN [cart |-> removeFromCart(prevCart, r.product.id),
                   added |-> <<>>]
             ELSE same
        ELSE IF r.type = "clear" THEN [cart |-> <<>>, added |-> <<>>]
        ELSE same

\* MOCK_USERS: username, password and id.
MOCK_USERS == {
    [id |-> 1, username |-> "admin", password |-> "admin123"],
    [id |-> 2, username |-> "cashier1", password |-> "cash123"],
    [id |-> 3, username |-> "cashier2", password |-> "cash123"],
    [id |-> 4, username |-> "manager", password |-> "mgr123"]
  }

\* AuthService.login: the id of the user logged in, 0 on failure.
login(username, password) ==
    LET hits == {u \in MOCK_USERS :
                    u.username = username /\ u.password = password}
    IN  IF hits = {} THEN 0 ELSE (CHOOSE u \in hits : TRUE).id

\* What is typed into the login form.
Credentials == {
    <<"cashier1", "cash123">>,
    <<"manager", "mgr123">>,
    <<"cashier1", "mgr123">>
  }

\* What is said to the dashboard.
DashboardTranscripts == {
    <<97, 100, 100, 32, 116, 104, 114, 101, 101, 32, 99, 104, 105, 112, 115>>,   \* add three chips
    <<97, 100, 100, 32, 109, 105, 108, 107>>,   \* add milk
    <<97, 100, 100, 32, 115, 111, 97, 112>>,   \* add soap
    <<114, 101, 109, 111, 118, 101, 32, 99, 104, 105, 112, 115>>,   \* remove chips
    <<114, 101, 109, 111, 118, 101, 32, 108, 97, 115, 116, 32, 105, 116, 101, 109>>,   \* remove last item
    <<99, 108, 101, 97, 114, 32, 99, 97, 114, 116>>,   \* clear cart
    <<97, 115, 100, 107, 106, 97, 115, 106, 107, 100>>,   \* asdkjasjkd
    <<32>>   \* a blank
  }

\* parseInt(newQuantity) || 0 of what is typed into a quantity field.
TypedQuantities == {0, 1, 5}

DashboardInit ==
    /\ products = STOCK_PRODUCTS
    /\ i18n_language = en
    /\ transcript = <<>>
    /\ language = <<>>
    /\ pc = "ready"
    /\ result = NoResult
    /\ searchName = <<>>
    /\ foundProduct = 0
    /\ ServiceIdle
    /\ UiIdle

\* Login.handleSubmit: authService.login, then App.handleLogin on success.
Login ==
    /\ ~isAuthenticated
    /\ \E c \in Credentials :
        LET user == login(c[1], c[2])
        IN  IF user # 0
            THEN /\ currentUser' = user
                 /\ session' = user
                 /\ isAuthenticated' = TRUE
                 /\ loggedOut' = FALSE
            ELSE UNCHANGED <<currentUser, session, isAuthenticated, loggedOut>>
    /\ UNCHANGED <<cart, added, coreVars, speechVars>>

\* The dashboard's logout button: onClick={onLogout}, App.handleLogout.
\* The dashboard unmounts and its cart state is gone.
LogoutButton ==
    /\ isAuthenticated
    /\ isAuthenticated' = FALSE
    /\ loggedOut' = TRUE
    /\ cart' = <<>>
    /\ added' = <<>>
    /\ UNCHANGED <<currentUser, session, coreVars, speechVars>>

\* A page reload: AuthService's constructor loads the session, App's mount
\* effect reads authService.isAuthenticated().
AppMount ==
    /\ currentUser' = session
    /\ isAuthenticated' = (session # 0)
    /\ cart' = <<>>
    /\ added' = <<>>
    /\ UNCHANGED <<session, loggedOut, coreVars, speechVars>>

\* ProductSearch.handleAddProduct: onAddProduct(product, 1).
HandleAddProduct ==
    /\ isAuthenticated
    /\ \E k \in 1..Len(products) :
        /\ cart' = addToCart(cart, products[k], 1)
        /\ added' = addRecord(cart, products[k], 1)
    /\ UNCHANGED <<currentUser, session, isAuthenticated, loggedOut,
                   coreVars, speechVars>>

\* ShoppingCart.increaseQuantity
IncreaseQuantity ==
    /\ isAuthenticated
    /\ \E k \in 1..Len(cart) :
        cart' = updateCartQuantity(cart, cart[k].product.id,
                                   cart[k].quantity + 1)
    /\ added' = <<>>
    /\ UNCHANGED <<currentUser, session, isAuthenticated, loggedOut,
                   coreVars, speechVars>>

\* ShoppingCart.decreaseQuantity
DecreaseQuantity ==
    /\ isAuthenticated
    /\ \E k \in 1..Len(cart) :
        cart' = IF cart[k].quantity > 1
                THEN updateCartQuantity(cart, cart[k].product.id,
                                        cart[k].quantity - 1)
                ELSE cart
    /\ added' = <<>>
    /\ UNCHANGED <<currentUser, session, isAuthenticated, loggedOut,
                   coreVars, speechVars>>

\* ShoppingCart.handleQuantityChange
HandleQuantityChange ==
    /\ isAuthenticated
    /\ \E k \in 1..Len(cart), quantity \in TypedQuantities :
        cart' = IF quantity > 0
                THEN updateCartQuantity(cart, cart[k].product.id, quantity)
                ELSE cart
    /\ added' = <<>>
    /\ UNCHANGED <<currentUser, session, isAuthenticated, loggedOut,
                   coreVars, speechVars>>

\* The cart's remove button: onRemoveItem(item.product.id).
RemoveItem ==
    /\ isAuthenticated
    /\ \E k \in 1..Len(cart) :
        cart' = removeFromCart(cart, cart[k].product.id)
    /\ added' = <<>>
    /\ UNCHANGED <<currentUser, session, isAuthenticated, loggedOut,
                   coreVars, speechVars>>

\* handleVoiceCommand: a blank transcript is dropped, any other is parsed
\* in the UI language and the result dispatched.
HandleVoiceCommand ==
    /\ isAuthenticated
    /\ \E t \in DashboardTranscripts :
        IF trim(t) = <<>> THEN UNCHANGED <<cart, added>>
        ELSE \E r \in {parseVoiceCommand(t, i18n_language, i18n_language,
                                          products)} :
             \E next \in {switchResultType(cart, r)} :
                /\ cart' = next.cart
                /\ added' = next.added
    /\ UNCHANGED <<currentUser, session, isAuthenticated, loggedOut,
                   coreVars, speechVars>>

DashboardNext ==
    \/ Login
    \/ LogoutButton
    \/ AppMount
    \/ HandleAddProduct
    \/ IncreaseQuantity
    \/ DecreaseQuantity
    \/ HandleQuantityChange
    \/ RemoveItem
    \/ HandleVoiceCommand

DashboardSpec == DashboardInit /\ [][DashboardNext]_vars

----------------------------------------------------------------------------
(* The speech recognition service.  Callbacks are named by the caller that *)
(* passed them; recognition languages are BCP-47 tags, compared only.      *)

Callers == {1, 2}

\* options.language: absent, or a tag
SpeechLanguages == {"", "en-US", "hi-IN"}

\* The fields a startListening call can touch.
speechFields == <<isListening, onResult, onError, onEnd, recognition_lang>>

\* recognition.start() throws InvalidStateError unless the recognizer is
\* idle: it has been started and has not ended yet.
startThrows == recognizer # "idle"

\* startListening(options), options coming from `caller`, with or without
\* onError and onEnd, and with an optional language.
StartListening ==
    /\ \E caller \in Callers, hasOnError \in BOOLEAN, hasOnEnd \in BOOLEAN,
          lang \in SpeechLanguages :
            IF recognition = "none" \/ isListening
            THEN /\ started' = [caller |-> caller, returned |-> FALSE,
                                before |-> speechFields, after |-> speechFields]
                 /\ UNCHANGED <<recognition, isListening, onResult, onError,
                                onEnd, recognition_lang, recognizer, delivered>>
            ELSE /\ onResult' = caller
                 /\ onError' = IF hasOnError THEN caller ELSE 0
                 /\ onEnd' = IF hasOnEnd THEN caller ELSE 0
                 /\ recognition_lang' = IF lang # "" /\ recognition_lang # lang
                                        THEN lang ELSE recognition_lang
                 /\ IF startThrows
                    THEN UNCHANGED <<isListening, recognizer>>
                    ELSE isListening' = TRUE /\ recognizer' = "running"
                 /\ started' = [caller |-> caller, returned |-> ~startThrows,
                                before |-> speechFields, after |-> speechFields']
                 /\ UNCHANGED <<recognition, delivered>>
    /\ UNCHANGED <<coreVars, dashboardVars>>

\* stopListening: recognition.stop() and isListening = false at once; the
\* recognizer ends later.
StopListening ==
    /\ IF recognition # "none" /\ isListening
       THEN /\ recognizer' = IF recognizer = "running" THEN "stopping"
                             ELSE recognizer
            /\ isListening' = FALSE
       ELSE UNCHANGED <<recognizer, isListening>>
    /\ UNCHANGED <<recognition, onResult, onError, onEnd, recognition_lang,
                   started, delivered, coreVars, dashboardVars>>

\* setLanguage(lang)
SetLanguage ==
    /\ \E lang \in SpeechLanguages \ {""} :
        recognition_lang' = IF recognition # "none" THEN lang
                            ELSE recognition_lang
    /\ UNCHANGED <<recognition, isListening, onResult, onError, onEnd,
                   recognizer, started, delivered, coreVars, dashboardVars>>

\* recognition.onresult with a final result
RecognizerResult ==
    /\ recognizer \in {"running", "stopping"}
    /\ delivered' = [event |-> "result", to |-> onResult]
    /\ UNCHANGED <<recognition, isListening, onResult, onError, onEnd,
                   recognition_lang, recognizer, started, coreVars,
                   dashboardVars>>

\* recognition.onerror
RecognizerError ==
    /\ recognizer \in {"running", "stopping"}
    /\ delivered' = [event |-> "error", to |-> onError]
    /\ UNCHANGED <<recognition, isListening, onResult, onError, onEnd,
                   recognition_lang, recognizer, started, coreVars,
                   dashboardVars>>

\* recognition.onend
RecognizerEnd ==
    /\ recognizer \in {"running", "stopping"}
    /\ recognizer' = "idle"
    /\ isListening' = FALSE
    /\ delivered' = [event |-> "end", to |-> onEnd]
    /\ UNCHANGED <<recognition, onResult, onError, onEnd, recognition_lang,
                   started, coreVars, dashboardVars>>

\* The service as its constructor leaves it, in a browser with or without
\* speech recognition.
SpeechInit ==
    /\ products = MOCK_PRODUCTS
    /\ i18n_language = en
    /\ transcript = <<>>
    /\ language = <<>>
    /\ pc = "ready"
    /\ result = NoResult
    /\ searchName = <<>>
    /\ foundProduct = 0
    /\ ServiceIdle
    /\ DashboardIdle
    /\ recognition \in {"none", "present"}
    /\ SpeechIdle

SpeechNext ==
    \/ StartListening
    \/ StopListening
    \/ SetLanguage
    \/ RecognizerResult
    \/ RecognizerError
    \/ RecognizerEnd

SpeechSpec == SpeechInit /\ [][SpeechNext]_vars

----------------------------------------------------------------------------
(* Properties of parseVoiceCommand.                                        *)

Done == pc = "done"

\* The transcript as the classifier reads it, and the active keyword table.
lowered == toLowerCase(transcript)
NoTable == [clear |-> <<>>, checkout |-> <<>>, payNow |-> <<>>, cash |-> <<>>,
            card |-> <<>>, digital |-> <<>>, received |-> <<>>, remove |-> <<>>,
            removeLast |-> <<>>, add |-> <<>>, numbers |-> <<>>]
table ==
    LET found == getCommandKeywords(effectiveLanguage(language, i18n_language))
    IN  IF "clear" \in DOMAIN found THEN found ELSE NoTable

\* A literal of the category occurs in the lowercased transcript.
Has(category) ==
    \E k \in 1..Len(table[category]) :
        \E i \in 0..(Len(lowered) - Len(table[category][k])) :
            \A j \in 1..Len(table[category][k]) :
                lowered[i + j] = table[category][k][j]

NonBlank == \E i \in 1..Len(transcript) : transcript[i] \notin WhiteSpace

IsMethod(m) ==
    /\ result.type = "pay_method"
    /\ result.method = m
    /\ result.action = "select_method"

\* C1: for a non-blank transcript the first of clear, checkout, pay-now,
\* select-cash, select-card, select-digital that has a literal in the
\* lowercased transcript decides the result, whatever later categories occur.
C1_PriorityOrder ==
    (Done /\ NonBlank) =>
        IF Has("clear") THEN result = [type |-> "clear", action |-> "clear_cart"]
        ELSE IF Has("checkout")
            THEN result = [type |-> "checkout", action |-> "open_payment"]
        ELSE IF Has("payNow")
            THEN result = [type |-> "pay_now", action |-> "confirm_payment"]
        ELSE IF Has("cash") THEN IsMethod("cash")
        ELSE IF Has("card") THEN IsMethod("card")
        ELSE IF Has("digital") THEN IsMethod("digital")
        ELSE TRUE

\* A transcript with literals of two payload-free categories, select-cash and
\* select-card, and of no earlier one, was parsed as select-cash.
C1_Witness ==
    /\ Done
    /\ ~Has("clear") /\ ~Has("checkout") /\ ~Has("payNow")
    /\ Has("cash") /\ Has("card")
    /\ IsMethod("cash")

\* C2 as stated: a transcript with a checkout literal and a select-cash
\* literal classifies as Checkout.
C2_CheckoutBeatsCash_Original ==
    (Done /\ Has("checkout") /\ Has("cash")) => result.type = "checkout"

\* C2, amended: a transcript with a checkout literal and a select-cash literal
\* classifies as Checkout unless it also holds a clear literal, and then as
\* Clear; it never classifies as SelectPaymentMethod(cash).
C2_CheckoutBeatsCash ==
    (Done /\ Has("checkout") /\ Has("cash")) =>
        /\ result.type = IF Has("clear") THEN "clear" ELSE "checkout"
        /\ ~IsMethod("cash")

C2_Witness ==
    /\ Done
    /\ Has("checkout") /\ Has("cash") /\ ~Has("clear")
    /\ result.type = "checkout"

\* C3: a select-cash literal parsed alone in its language yields
\* SelectPaymentMethod(cash); "pay with cash" in English is one.
C3_CashLiteralSelectsCash ==
    (Done /\ lowered \in Range(table.cash)) => IsMethod("cash")

\* C4: the remove-last command the README lists for each language, and every
\* remove-last literal of the language, is parsed as RemoveLast.
C4_RemoveLastLiteral ==
    (Done /\ (lowered \in Range(table.removeLast)
                \/ transcript = <<82, 101, 109, 111, 118, 101, 32, 108, 97, 115,
                                  116, 32, 105, 116, 101, 109>>)) =>
        result = [type |-> "remove", action |-> "remove_last"]

\* C5: a clear literal parsed in its language yields Clear.
C5_ClearLiteralClears ==
    (Done /\ transcript \in Range(table.clear)) =>
        result = [type |-> "clear", action |-> "clear_cart"]

C5_Witness ==
    /\ Done
    /\ language = ta
    /\ transcript \in Range(table.clear)
    /\ result.type = "clear"

\* No literal of the six payload-free categories occurs.
NoSimple ==
    /\ ~Has("clear") /\ ~Has("checkout") /\ ~Has("payNow")
    /\ ~Has("cash") /\ ~Has("card") /\ ~Has("digital")

ProductNotFound == [type |-> "unknown", action |-> "product_not_found"]

\* C6: when remove-item is the first category to match and the resolver finds
\* no product for the residual, the result is Unknown("product_not_found").
C6_RemoveUnresolvedIsUnknown ==
    (/\ Done /\ NonBlank
     /\ NoSimple /\ ~Has("received") /\ ~Has("removeLast") /\ Has("remove")
     /\ findProductByName(removeResidual(trim(lowered), table),
                          effectiveLanguage(language, i18n_language),
                          i18n_language, products) = 0)
        => result = ProductNotFound

\* The lowercased transcript holds no amount the extractor accepts.
NoUsableAmount == cashAmountCommand(trim(lowered), table).type = "none"

\* C7: when amount-received is the first category to match and no amount in
\* range can be extracted, the result is not decided by the remove-last,
\* remove-item or add-item paths.
C7_ReceivedWithoutAmountStands ==
    (Done /\ NonBlank /\ NoSimple /\ Has("received") /\ NoUsableAmount) =>
        /\ result.type \notin {"remove", "add"}
        /\ result # ProductNotFound

\* The amount of a SetCashAmount result, in thousandths.
IsCashAmount(a) ==
    result = [type |-> "cash_amount", amount |-> a, action |-> "set_cash_amount"]

\* C8: in English "received -5" attaches no amount, "received 50 dollars"
\* yields 50.00 and "received ₹45.5" yields 45.5.
C8_SpokenAmounts ==
    (Done /\ language = en) =>
        /\ transcript = <<114, 101, 99, 101, 105, 118, 101, 100, 32, 45, 53>>
              => result.type # "cash_amount"
        /\ transcript = <<114, 101, 99, 101, 105, 118, 101, 100, 32, 53, 48, 32,
                          100, 111, 108, 108, 97, 114, 115>>
              => IsCashAmount(50000)
        /\ transcript = <<114, 101, 99, 101, 105, 118, 101, 100, 32, 8377, 52,
                          53, 46, 53>>
              => IsCashAmount(45500)

\* C9: every SetCashAmount result carries an amount with
\* 0 < amount <= 1,000,000 that is a whole number of hundredths.
C9_CashAmountInRange ==
    (Done /\ result.type = "cash_amount") =>
        /\ result.amount > 0
        /\ result.amount <= 1000000 * 1000
        /\ result.amount % 10 = 0

\* An amount with decimals was extracted from a transcript that names it.
C9_Witness ==
    /\ Done
    /\ Has("received")
    /\ IsCashAmount(45500)

\* No number word of the active language occurs in the lowercased transcript.
NoNumberWord ==
    \A k \in 1..Len(table.numbers) : ~includes(lowered, table.numbers[k][1])

\* C10: every AddItem result carries a quantity in 1..100; without a number
\* word, a first digit run above 100 gives 100, a digit run of 0 gives 1, and
\* no digits at all gives 1.
C10_QuantityClamped ==
    (Done /\ result.type = "add") =>
        /\ result.quantity >= 1
        /\ result.quantity <= 100
        /\ (NoNumberWord /\ firstDigitRun(lowered) # <<>>
              /\ digitsValue(firstDigitRun(lowered)) > 100)
              => result.quantity = 100
        /\ (NoNumberWord /\ firstDigitRun(lowered) # <<>>
              /\ digitsValue(firstDigitRun(lowered)) = 0)
              => result.quantity = 1
        /\ (NoNumberWord /\ firstDigitRun(lowered) = <<>>)
              => result.quantity = 1

\* An AddItem whose digit run, 500, was clamped to 100.
C10_Witness ==
    /\ Done
    /\ result.type = "add"
    /\ NoNumberWord
    /\ firstDigitRun(lowered) = <<53, 48, 48>>
    /\ result.quantity = 100

\* The number words of the active table that occur in the lowercased
\* transcript, as indices into the table.
NumberWordsHeard ==
    {k \in 1..Len(table.numbers) : includes(lowered, table.numbers[k][1])}

\* C11: when a number word of the active language occurs in the transcript,
\* the quantity of the AddItem is the integer that word maps to (the first
\* such word of the table), whatever digits the transcript also holds.
C11_NumberWordBeatsDigits ==
    (Done /\ result.type = "add" /\ NumberWordsHeard # {}) =>
        result.quantity = table.numbers[MinOf(NumberWordsHeard)][2]

\* The catalog holds the product of the example: id 5, Chips, stock 75.
HasChipsProduct ==
    \E i \in 1..Len(products) :
        /\ products[i].id = "5"
        /\ products[i].name_en = <<67, 104, 105, 112, 115>>
        /\ products[i].stock = 75

\* C12: "add two packets of chips" in English, against a catalog that holds
\* the product with id 5, named Chips, is AddItem of that product with
\* quantity 2.
C12_AddTwoPacketsOfChips ==
    (/\ Done
     /\ lowered = <<97, 100, 100, 32, 116, 119, 111, 32, 112, 97, 99, 107, 101, 116, 115, 32, 111, 102, 32, 99, 104, 105, 112, 115>>
     /\ effectiveLanguage(language, i18n_language) = en
     /\ HasChipsProduct)
        => /\ result.type = "add"
           /\ result.product.id = "5"
           /\ result.quantity = 2

\* The example was parsed against the built-in catalog.
C12_Witness ==
    /\ Done
    /\ lowered = <<97, 100, 100, 32, 116, 119, 111, 32, 112, 97, 99, 107, 101, 116, 115, 32, 111, 102, 32, 99, 104, 105, 112, 115>>
    /\ language = en
    /\ products = MOCK_PRODUCTS
    /\ result.type = "add"
    /\ result.product.name_en = <<67, 104, 105, 112, 115>>
    /\ result.quantity = 2

\* C13: a blank transcript, the empty string or white space only, is
\* Unknown with the tag empty_transcript.
C13_BlankIsEmptyTranscript ==
    (Done /\ ~NonBlank) =>
        result = [type |-> "unknown", action |-> "empty_transcript"]

\* The word of the example, as spoken and as a barcode candidate.
Gibberish == <<97, 115, 100, 107, 106, 97, 115, 106, 107, 100>>   \* asdkjasjkd
GibberishBarcode == <<65, 83, 68, 75, 74, 65, 83, 74, 75, 68>>   \* ASDKJASJKD

\* A product of the catalog is near the word: its barcode contains the
\* barcode candidate, or one of its names, normalized, contains the word or
\* is contained in it.
GibberishNearProduct ==
    \E i \in 1..Len(products) :
        \/ includes(toUpperCase(products[i].barcode), GibberishBarcode)
        \/ \E n \in Range(allNames(products[i])) \cup {products[i].name} :
               \/ includes(normalize(n), Gibberish)
               \/ includes(Gibberish, normalize(n))

ResolvesToTable ==
    "clear" \in DOMAIN getCommandKeywords(effectiveLanguage(language, i18n_language))

----------------------------------------------------------------------------
(* Properties of findProductByName.                                        *)

\* The active language of the call, and the name a product carries in a
\* language (empty when it has none).
activeLanguage == splitDash0(effectiveLanguage(language, i18n_language))

LocalizedName(p, lang) ==
    CASE lang = en -> p.name_en
      [] lang = kn -> p.name_kn
      [] lang = ml -> p.name_ml
      [] lang = ta -> p.name_ta
      [] lang = hi -> p.name_hi

\* The barcode stage has a hit for the name searched.
BarcodeHolds(i) ==
    /\ products[i].barcode # <<>>
    /\ includes(toUpperCase(products[i].barcode),
                toUpperCase(replaceWhiteSpaceRuns(searchName, 95)))

\* The name the active language shows for product i normalizes to the
\* normalized name searched.
SameActiveName(i) ==
    normalize(getProductNameInLanguage(products[i], language, i18n_language))
        = normalize(searchName)

\* C15 as stated: the name a product carries in the active language
\* resolves to that product, in every catalog.
C15_RoundTrip ==
    Done =>
        \A i \in 1..Len(products) :
            (/\ searchName # <<>>
             /\ searchName = LocalizedName(products[i], activeLanguage))
                => foundProduct = i

\* C15: the name a product carries in the active language resolves to that
\* product when the name normalizes to two characters or more, no barcode
\* of the catalog contains the name upper-cased and underscore-joined, and
\* no earlier product shows the same normalized name in that language.
C15_RoundTripUnlessShadowed ==
    Done =>
        \A i \in 1..Len(products) :
            (/\ searchName # <<>>
             /\ searchName = LocalizedName(products[i], activeLanguage)
             /\ Len(normalize(searchName)) >= 2
             /\ \A j \in 1..Len(products) : ~BarcodeHolds(j)
             /\ \A j \in 1..(i - 1) : ~SameActiveName(j))
                => foundProduct = i

\* A name that an earlier product contains resolved to its own product:
\* Milk, listed after Milk Bread.
C15_Witness ==
    /\ Done
    /\ products = CASCADE_PRODUCTS
    /\ language = en
    /\ searchName = products[5].name_en
    /\ includes(products[4].name_en, searchName)
    /\ foundProduct = 5

\* Product j carries, in some language, a name whose normalized form equals
\* the normalized name searched, contains it or is contained in it.
NameNear(j) ==
    \E n \in Range(allNames(products[j])) \cup {products[j].name} :
        \/ includes(normalize(n), normalize(searchName))
        \/ includes(normalize(searchName), normalize(n))

\* C16 as stated: the name a product carries in a language other than the
\* active one resolves to that product, in every catalog.
C16_CrossLanguage ==
    Done =>
        \A i \in 1..Len(products) : \A a \in Languages \ {activeLanguage} :
            (/\ searchName # <<>>
             /\ searchName = LocalizedName(products[i], a))
                => foundProduct = i

\* C16: the name a product carries in a language other than the active one
\* resolves to that product when the name normalizes to two characters or
\* more, no barcode of the catalog contains the name upper-cased and
\* underscore-joined, and no other product carries a name, in any language,
\* that normalized equals it, contains it or is contained in it.
C16_CrossLanguageUnlessShadowed ==
    Done =>
        \A i \in 1..Len(products) : \A a \in Languages \ {activeLanguage} :
            (/\ searchName # <<>>
             /\ searchName = LocalizedName(products[i], a)
             /\ Len(normalize(searchName)) >= 2
             /\ \A j \in 1..Len(products) : ~BarcodeHolds(j)
             /\ \A j \in 1..Len(products) \ {i} : ~NameNear(j))
                => foundProduct = i

\* The Hindi name of a remote row resolved to that row, the active language
\* being English.
C16_Witness ==
    /\ Done
    /\ products = REMOTE_PRODUCTS
    /\ language = en
    /\ searchName = products[1].name_hi
    /\ searchName # products[1].name_en
    /\ foundProduct = 1

\* The name searched, normalized; the name the active language shows for a
\* product, normalized.
searched == normalize(searchName)
ActiveName(i) ==
    normalize(getProductNameInLanguage(products[i], language, i18n_language))

\* Two normalized names of which one contains the other.
Related(a, b) == includes(a, b) \/ includes(b, a)

\* The products each of the first four stages matches.
BarcodeHits == {i \in 1..Len(products) : BarcodeHolds(i)}
ExactHits == {i \in 1..Len(products) : ActiveName(i) = searched}
SubstringHits == {i \in 1..Len(products) : Related(ActiveName(i), searched)}
CrossHits ==
    {i \in 1..Len(products) :
        \E n \in Range(allNames(products[i])) : Related(normalize(n), searched)}

\* Token scores as fractions: of a product's active-language name, and of
\* each of its language variants.
Fraction(a, b) == <<Cardinality(a \cap b), Cardinality(a \cup b)>>
SameScore(x, y) == x[1] * y[2] = y[1] * x[2]
Below(x, y) == x[1] * y[2] < y[1] * x[2]
ActiveScore(i) ==
    Fraction(tokenSet(searched),
             tokenSet(getProductNameInLanguage(products[i], language, i18n_language)))
VariantScores(i) ==
    {Fraction(tokenSet(searched), tokenSet(n)) : n \in Range(allNames(products[i]))}
AllVariantScores == UNION {VariantScores(i) : i \in 1..Len(products)}

\* The products of maximal score in the scan of stage 5 and of stage 6.
ActiveMaxima ==
    {i \in 1..Len(products) :
        \A j \in 1..Len(products) : ~Below(ActiveScore(i), ActiveScore(j))}
VariantMaxima ==
    {i \in 1..Len(products) :
        \E x \in VariantScores(i) : \A y \in AllVariantScores : ~Below(x, y)}

\* The product a token stage returns: the first of the maxima if its score
\* is two fifths or more, else none (0).
AtLeastTwoFifths(x) == 5 * x[1] >= 2 * x[2]
ActiveFuzzyHit ==
    IF ActiveMaxima # {} /\ AtLeastTwoFifths(ActiveScore(MinOf(ActiveMaxima)))
    THEN MinOf(ActiveMaxima) ELSE 0
VariantFuzzyHit ==
    IF VariantMaxima # {}
       /\ \E x \in VariantScores(MinOf(VariantMaxima)) :
              AtLeastTwoFifths(x) /\ \A y \in AllVariantScores : ~Below(x, y)
    THEN MinOf(VariantMaxima) ELSE 0

\* C17: for a name of two normalized characters or more, the stages are
\* tried in the order barcode, exact, substring, cross-language substring,
\* active-language tokens, cross-language tokens; the first stage with a hit
\* returns its first product in catalog order, whatever later stages match.
C17_CascadeOrder ==
    (Done /\ Len(searched) >= 2) =>
        foundProduct =
            IF BarcodeHits # {} THEN MinOf(BarcodeHits)
            ELSE IF ExactHits # {} THEN MinOf(ExactHits)
            ELSE IF SubstringHits # {} THEN MinOf(SubstringHits)
            ELSE IF CrossHits # {} THEN MinOf(CrossHits)
            ELSE IF ActiveFuzzyHit # 0 THEN ActiveFuzzyHit
            ELSE VariantFuzzyHit

\* The barcode stage decided against an exact name match and against an
\* earlier product whose name contains the name searched.
C17_Witness ==
    /\ Done
    /\ products = CASCADE_PRODUCTS
    /\ BarcodeHits = {2}
    /\ ExactHits = {3}
    /\ 1 \in SubstringHits
    /\ foundProduct = 2

\* C18: when no earlier stage has a hit, a token stage returns the first
\* product of maximal score in catalog order if that score is at least two
\* fifths, and nothing otherwise: stage 5 on the active-language names, and
\* stage 6 on all language variants when stage 5 returns nothing.
C18_JaccardThreshold ==
    (/\ Done
     /\ Len(searched) >= 2
     /\ BarcodeHits = {} /\ SubstringHits = {} /\ CrossHits = {})
        => /\ ActiveFuzzyHit # 0 => foundProduct = ActiveFuzzyHit
           /\ ActiveFuzzyHit = 0 => foundProduct = VariantFuzzyHit
           /\ foundProduct # 0 =>
                 \/ AtLeastTwoFifths(ActiveScore(foundProduct))
                 \/ \E x \in VariantScores(foundProduct) : AtLeastTwoFifths(x)

\* Two products scored exactly two fifths and the first was returned.
C18_Witness ==
    /\ Done
    /\ products = JACCARD_TIE_PRODUCTS
    /\ BarcodeHits = {} /\ SubstringHits = {} /\ CrossHits = {}
    /\ ActiveScore(1) = <<2, 5>>
    /\ ActiveScore(2) = <<2, 5>>
    /\ foundProduct = 1

\* C19: a name whose normalized form is empty or one character long
\* resolves to nothing, whatever the catalog holds.
C19_ShortNameNotFound ==
    (Done /\ Len(searched) < 2) => foundProduct = 0

\* A one-character name was not resolved although a product carries that
\* very name and a barcode containing it.
C19_Witness ==
    /\ Done
    /\ Len(searched) = 1
    /\ \E i \in 1..Len(products) :
          /\ normalize(products[i].name_en) = searched
          /\ includes(toUpperCase(products[i].barcode), toUpperCase(searchName))
    /\ foundProduct = 0

----------------------------------------------------------------------------
(* parseVoiceCommand and the normalizer.                                   *)

\* C20: a transcript is classified like every other spelling of it, that
\* is, like every transcript with the same normalized form (case,
\* punctuation and white-space runs apart).
C20_ClassifiedOnNormalizedText ==
    Done =>
        \A other \in ExampleTranscripts(language) :
            normalize(other) = normalize(transcript)
                => parseVoiceCommand(other, language, i18n_language, products).type
                       = result.type

----------------------------------------------------------------------------
(* The results of parseVoiceCommand as a whole.                            *)

\* The result types the parser returns, and the tags of an Unknown.
ReturnedTypes == {"add", "remove", "clear", "checkout", "pay_method",
                  "cash_amount", "pay_now", "unknown"}
UnknownTags == {"invalid_input", "empty_transcript", "product_not_found"}

\* C21: for every transcript, language code and catalog the call returns a
\* command result, never throwing, and a failure is an Unknown with a tag.
C21_Totality ==
    Done =>
        /\ result.type \in ReturnedTypes \cup {"print_receipt"}
        /\ result.type = "unknown" => result.action \in UnknownTags

\* The base part of the language code is none of en, hi, kn, ml, ta.
UnsupportedLanguage ==
    splitDash0(effectiveLanguage(language, i18n_language)) \notin Languages

\* C24: for a language code whose base part has no table the result is the
\* one the same transcript and catalog give for language en.
C24_UnsupportedLanguageIsEnglish ==
    (Done /\ UnsupportedLanguage) =>
        result = parseVoiceCommand(transcript, en, i18n_language, products)

----------------------------------------------------------------------------
(* Properties of the service over time.                                    *)

\* C22: a call of parseVoiceCommand or of findProductByName leaves the
\* product list (same products, same order, same field values) and the bill
\* list as they were before the call.
C22_Purity ==
    [][(CallParseVoiceCommand \/ CallFindProductByName)
          => (products' = products /\ bills' = bills)]_vars

\* Both functions have been called on a fetched catalog, the resolver found
\* a product, and a bill is held.
C22_Witness ==
    /\ Len(calls) > 0
    /\ foundProduct # 0
    /\ products # MOCK_PRODUCTS
    /\ bills # <<>>

\* C23: two calls with the same transcript, the same explicitly passed
\* language and the same catalog contents return equal results, whatever
\* happened between them.
C23_Determinism ==
    \A i, j \in 1..Len(calls) :
        (/\ calls[i].transcript = calls[j].transcript
         /\ calls[i].language # <<>>
         /\ calls[i].language = calls[j].language
         /\ calls[i].products = calls[j].products)
            => calls[i].result = calls[j].result

\* Two such calls were made, the UI language was changed between them (the
\* same transcript parsed under the UI language gives another result).
C23_Witness ==
    /\ Len(calls) = 2
    /\ calls[1].transcript = calls[2].transcript
    /\ calls[1].language = en
    /\ calls[2].language = en
    /\ calls[1].products = calls[2].products
    /\ i18n_language = hi
    /\ parseVoiceCommand(calls[1].transcript, <<>>, hi, calls[1].products)
           # calls[1].result

\* C27: after any sequence of fetches the product list is not empty, and
\* every fetch resolved to a non-empty list.
C27_CatalogNeverEmpty ==
    /\ Len(products) > 0
    /\ fetched # <<>> => (fetched.status = "resolved" /\ Len(fetched.value) > 0)

\* A fetch whose rows were all invalid after an earlier fetch had loaded
\* the remote rows: the list falls back to the local catalog.
C27_Witness ==
    /\ fetched # <<>>
    /\ fetched.value = MOCK_PRODUCTS
    /\ products = MOCK_PRODUCTS
    /\ \E k \in 1..Len(calls) : calls[k].products # MOCK_PRODUCTS

----------------------------------------------------------------------------
(* Properties of the billing dashboard.                                    *)

\* C25: when addToCart(product, q) is called while the quantity in the cart
\* plus q exceeds the product's stock and some stock is still addable, the
\* cart afterwards holds exactly product.stock units of the product, also
\* when the product was not in the cart before.
C25_StockLimitOnAdd ==
    (/\ added # <<>>
     /\ added.before + added.quantity > added.stock
     /\ added.stock - added.before > 0)
        => quantityInCart(cart, added.id) = added.stock

\* C26: every product id occurs at most once in the cart, every item has
\* 1 <= quantity <= its product's stock, and totalPrice is quantity times
\* the product's price.
C26_CartInvariant ==
    \A k \in 1..Len(cart) :
        /\ cart[k].quantity >= 1
        /\ cart[k].quantity <= cart[k].product.stock
        /\ cart[k].totalPrice = cart[k].quantity * cart[k].product.price
        /\ \A j \in 1..Len(cart) :
              cart[j].product.id = cart[k].product.id => j = k

\* Two products in the cart, both at their stock limit.
C26_Witness ==
    /\ Len(cart) = 2
    /\ \A k \in 1..2 : cart[k].quantity = cart[k].product.stock
    /\ cart[1].product.id = "m2"

\* C28: once the dashboard's logout control was used, nobody is
\* authenticated, the persisted session is gone, and the dashboard is not
\* shown, a page reload included.
C28_LogoutEndsSession ==
    loggedOut => (currentUser = 0 /\ session = 0 /\ ~isAuthenticated)

----------------------------------------------------------------------------
(* Properties of the speech recognition service.                           *)

\* C29: a startListening call that returned false left isListening, the
\* registered onResult, onError and onEnd callbacks and the recognition
\* language as they were before the call.
C29_FailedStartChangesNothing ==
    (started # <<>> /\ ~started.returned) => started.after = started.before

====
